---- MODULE Spec2Model ----
(***************************************************************************)
(* A model of the log-structured key-value engine KvStore                  *)
(* (rust/projects/project-4-solution/src/engines/kvs.rs): the generation   *)
(* numbered log files on disk, the in-memory index of log pointers, the    *)
(* single writer behind its mutex, the lock-free readers with their        *)
(* private file-handle caches, compaction, and recovery by log replay.     *)
(*                                                                         *)
(* A log file is the sequence of commands written to it together with the  *)
(* number of its bytes that reached the file ("size"); the bytes beyond    *)
(* "size" are still in the writer's BufWriter and are lost by a crash.     *)
(* A string value is a character repeated n times, so that the byte        *)
(* lengths of the serialized records are the real ones.                    *)
(***************************************************************************)
EXTENDS Integers, Sequences, FiniteSets, TLC

\* ------------------------------------------------------------------ bounds

\* The number of set/remove calls that reach the log in one behaviour.
MaxOps == 3

\* The number of times the engine is closed or crashes in one behaviour.
MaxRestarts == 1

\* Calls of set and remove that write to the log of an engine that threads
\* share.
MaxSharedOps == 2

\* The threads of the pool: the argument of SharedQueueThreadPool::new.
PoolThreads == 2

\* Tasks given to the pool.
MaxTasks == 3

\* Starts of the server in one directory.
MaxStarts == 3

\* Requests a client sends on one connection.
MaxRequests == 3

\* ------------------------------------------------------- program constants

COMPACTION_THRESHOLD == 1024

\* The capacity BufWriter::new gives the buffer (and the chunk io::copy moves).
DEFAULT_BUF_SIZE == 8192

\* ------------------------------------------------------------------ inputs

\* The keys, in their sort order (the order SkipMap iterates in).
KeyOrder == <<"a", "b">>

KeySet == {KeyOrder[i] : i \in 1..Len(KeyOrder)}

\* A value is the character ch repeated n times.
Values == {[ch |-> "x", n |-> 600], [ch |-> "y", n |-> 9000]}

Threads == {"t1", "t2"}

NoThread == "none"

\* Option<T>: None is the empty sequence, Some(x) the sequence of x alone.
None == <<>>

Some(x) == <<x>>

\* ---------------------------------------------------------- command records

SetCmd(k, v) == [op |-> "Set", key |-> k, value |-> Some(v)]

RemoveCmd(k) == [op |-> "Remove", key |-> k, value |-> None]

\* The lengths of the pieces serde_json::to_writer hands to the writer, one
\* write call after another: {"Set":{"key":" k ","value":" v "}} and
\* {"Remove":{"key":" k "}}.
Pieces(cmd) ==
    IF cmd.op = "Set"
    THEN <<15, Len(cmd.key), 11, cmd.value[1].n, 3>>
    ELSE <<18, Len(cmd.key), 3>>

RECURSIVE SumSeq(_)
SumSeq(s) == IF s = <<>> THEN 0 ELSE Head(s) + SumSeq(Tail(s))

\* The byte length of the serialized command.
CmdLen(cmd) == SumSeq(Pieces(cmd))

RECURSIVE TotalLen(_)
TotalLen(cmds) == IF cmds = <<>> THEN 0 ELSE CmdLen(Head(cmds)) + TotalLen(Tail(cmds))

\* ------------------------------------------------------- positioned writers

EmptyFile == [cmds |-> <<>>, size |-> 0]

\* BufWriter::write of n bytes, on the pair (bytes in the file, bytes in the
\* buffer): a write that does not fit flushes the buffer first, and a write as
\* large as the buffer goes to the file directly.
BufWrite(st, n) ==
    LET flushed == IF st.buf + n > DEFAULT_BUF_SIZE
                   THEN [size |-> st.size + st.buf, buf |-> 0]
                   ELSE st
    IN IF n >= DEFAULT_BUF_SIZE
       THEN [size |-> flushed.size + n, buf |-> flushed.buf]
       ELSE [size |-> flushed.size, buf |-> flushed.buf + n]

RECURSIVE BufWriteAll(_, _)
BufWriteAll(st, pieces) ==
    IF pieces = <<>> THEN st
    ELSE BufWriteAll(BufWrite(st, Head(pieces)), Tail(pieces))

\* The writer's logical offset: every byte written through it.
WriterPos(f) == TotalLen(f.cmds)

\* A command written through the file's BufWriterWithPos in the given pieces.
WriteThrough(f, cmd, pieces) ==
    LET st == BufWriteAll([size |-> f.size, buf |-> WriterPos(f) - f.size], pieces)
    IN [cmds |-> Append(f.cmds, cmd), size |-> st.size]

\* serde_json::to_writer(&mut self.writer, &command)
ToWriter(f, cmd) == WriteThrough(f, cmd, Pieces(cmd))

\* The chunks io::copy moves a record of len bytes in.
RECURSIVE CopyPieces(_)
CopyPieces(len) ==
    IF len <= DEFAULT_BUF_SIZE THEN <<len>>
    ELSE <<DEFAULT_BUF_SIZE>> \o CopyPieces(len - DEFAULT_BUF_SIZE)

\* Mutant: the record is copied twice.
CopyToTwice(f, cmd) ==
    WriteThrough(WriteThrough(f, cmd, CopyPieces(CmdLen(cmd))), cmd, CopyPieces(CmdLen(cmd)))

\* io::copy(&mut entry_reader, &mut compaction_writer) of one record.
CopyTo(f, cmd) == WriteThrough(f, cmd, CopyPieces(CmdLen(cmd)))

\* Mutant: flush leaves the buffered bytes in the buffer.
FlushNothing(f) == f

\* BufWriterWithPos::flush
Flush(f) == [f EXCEPT !.size = WriterPos(f)]

\* ------------------------------------------------------------ reading a log

\* The number of the record that starts at byte pos (0 if none does).
RecordAt(cmds, pos) ==
    LET hits == {i \in 1..Len(cmds) : TotalLen(SubSeq(cmds, 1, i - 1)) = pos}
    IN IF hits = {} THEN 0 ELSE CHOOSE i \in hits : TRUE

Ok(x) == [kind |-> "ok", val |-> x]

Err(e) == [kind |-> e, val |-> None]

\* serde_json::from_reader over the len bytes at pos: the command, or a decode
\* error when the bytes are not (yet) in the file or are not one whole record.
ReadCommand(f, cmd_pos) ==
    LET i == RecordAt(f.cmds, cmd_pos.pos)
    IN IF i # 0 /\ CmdLen(f.cmds[i]) = cmd_pos.len
          /\ cmd_pos.pos + cmd_pos.len <= f.size
       THEN Ok(f.cmds[i])
       ELSE Err("Serde")

\* Mutant: the end of the range is taken for the length.
CommandPosEndAsLen(gen, start, end) == [gen |-> gen, pos |-> start, len |-> end]

\* impl From<(u64, Range<u64>)> for CommandPos
CommandPos(gen, start, end) == [gen |-> gen, pos |-> start, len |-> end - start]

\* ------------------------------------------------------------------- replay

EmptyIndex == [k \in KeySet |-> None]

\* Mutant: load counts nothing for the entry a record replaces.
OldLenUncounted(old_cmd) == 0

\* load: the length of the entry a record replaces (index.get before a Set,
\* index.remove for a Remove), which goes to uncompacted.
OldLen(old_cmd) == IF old_cmd = None THEN 0 ELSE old_cmd[1].len

\* load, from record i at byte pos on: the Set and Remove records that lie
\* whole within the file's bytes are applied to the index; bytes that end
\* inside a record make the stream yield an error, which `cmd?` returns.
RECURSIVE LoadFrom(_, _, _, _, _)
LoadFrom(gen, f, i, pos, st) ==
    IF pos >= f.size \/ i > Len(f.cmds) THEN st
    ELSE LET cmd == f.cmds[i]
             new_pos == pos + CmdLen(cmd)
             old_cmd == st.index[cmd.key]
             old_len == OldLen(old_cmd)
         IN IF new_pos > f.size
            THEN [st EXCEPT !.ok = FALSE]
            ELSE IF cmd.op = "Set"
            THEN LoadFrom(gen, f, i + 1, new_pos,
                     [st EXCEPT !.index[cmd.key] = Some(CommandPos(gen, pos, new_pos)),
                                !.uncompacted = @ + old_len])
            ELSE LoadFrom(gen, f, i + 1, new_pos,
                     [st EXCEPT !.index[cmd.key] = None,
                                !.uncompacted = @ + old_len + (new_pos - pos)])

\* load(gen, &mut reader, &*index), the uncompacted bytes added to st's.
Load(gen, f, st) == LoadFrom(gen, f, 1, 0, st)

\* Mutant: the generations in descending order.
RECURSIVE DescendingGenList(_)
DescendingGenList(gens) ==
    IF gens = {} THEN <<>>
    ELSE LET m == CHOOSE g \in gens : \A h \in gens : g >= h
         IN <<m>> \o DescendingGenList(gens \ {m})

\* sorted_gen_list: the generations of the directory's log files, ascending.
RECURSIVE SortedGenList(_)
SortedGenList(gens) ==
    IF gens = {} THEN <<>>
    ELSE LET m == CHOOSE g \in gens : \A h \in gens : g <= h
         IN <<m>> \o SortedGenList(gens \ {m})

\* The loop of open over gen_list: each file replayed in turn, stopping at the
\* first error.
RECURSIVE LoadAll(_, _, _)
LoadAll(gen_list, fs, st) ==
    IF gen_list = <<>> \/ ~st.ok THEN st
    ELSE LoadAll(Tail(gen_list), fs, Load(Head(gen_list), fs[Head(gen_list)], st))

\* Mutant: the first generation of the list is taken.
FirstOr0(gen_list) == IF gen_list = <<>> THEN 0 ELSE gen_list[1]

\* gen_list.last().unwrap_or(&0)
LastOr0(gen_list) == IF gen_list = <<>> THEN 0 ELSE gen_list[Len(gen_list)]

\* What a crash leaves of a file: the records with a byte in the file; the
\* last of them may be cut short.
RECURSIVE Durable(_)
Durable(f) ==
    IF f.cmds # <<>> /\ TotalLen(SubSeq(f.cmds, 1, Len(f.cmds) - 1)) >= f.size
    THEN Durable([f EXCEPT !.cmds = SubSeq(f.cmds, 1, Len(f.cmds) - 1)])
    ELSE f

\* new_log_file: the file <gen>.log created (if it is not there) and opened.
NewLogFile(fs, gen) == IF gen \in DOMAIN fs THEN fs ELSE fs @@ (gen :> EmptyFile)

\* The files that are still in the directory or still held open by a reader:
\* a deleted file goes away when its last handle is closed.
Retained(fs, lk, held) == [g \in DOMAIN fs \cap (lk \cup held) |-> fs[g]]

\* KvStore::open on a directory: the replay of its log files and the new
\* current log file, or ok = FALSE when the replay returns an error.
Opened(fs, lk) ==
    LET gen_list == SortedGenList(lk)
        st == LoadAll(gen_list, fs, [index |-> EmptyIndex, uncompacted |-> 0, ok |-> TRUE])
        gen == LastOr0(gen_list) + 1
    IN [ok |-> st.ok, index |-> st.index, uncompacted |-> st.uncompacted,
        current_gen |-> gen, files |-> NewLogFile(fs, gen), linked |-> lk \cup {gen}]

\* -------------------------------------------------------------------- state

VARIABLES
    files,          \* the log files: generation -> [cmds, size]
    linked,         \* the generations whose file is in the directory
    status,         \* "up": opened; "down": dropped or crashed; "failed": open returned Err
    index,          \* KvStore.index: key -> Option<CommandPos>
    safe_point,     \* KvStoreReader.safe_point
    current_gen,    \* KvStoreWriter.current_gen
    writer,         \* KvStoreWriter.writer: the generation of the log file it appends to
    uncompacted,    \* KvStoreWriter.uncompacted
    wreaders,       \* KvStoreWriter.reader.readers: generations with an open handle
    lock,           \* the thread holding the writer mutex
    compaction_gen, \* compact: compaction_gen
    new_pos,        \* compact: new_pos
    todo,           \* compact: the keys the index iterator has yet to yield
    stale,          \* compact: stale_gens yet to delete
    clen,           \* compact: len, the bytes io::copy moved for the entry
    wpos,           \* set/remove: pos, the writer's offset before the record
    pc,             \* each thread's place in its call
    req,            \* each thread's call: [op, key, value, pre]
    cmd_pos,        \* get: the CommandPos read from the index
    ret,            \* each thread's result
    readers,        \* KvStore.reader.readers of each thread's clone
    ops,            \* history: set/remove calls that reached the log
    restarts,       \* history: closes and crashes so far
    model,          \* history: the key-value map the calls so far amount to
    lastOp,         \* history: each key's last successful mutation
    snap,           \* history: the answers when the last compaction or close began
    downPc,         \* history: where the writer was when the engine went down
    crashes,        \* history: how many times the process died inside a call
    began,          \* history: current_gen and the directory's bytes when compact began
    fresh,          \* history: no set/remove has begun since the last open
    written,        \* history: the values each key has had in the index (None: removed)
    returned        \* history: each key's last mutation that has returned

\* SharedQueueThreadPool
VARIABLES
    sender,         \* SharedQueueThreadPool.sender: "open", or "dropped" with the pool
    queue,          \* the channel: the tasks sent and not yet received
    workers,        \* each worker thread's place in run_task
    spawned,        \* history: tasks given to spawn so far
    ran             \* history: tasks a worker has called so far

poolVars == <<sender, queue, workers, spawned, ran>>

\* The threads a pool can have had: those of new and one more for every task,
\* since a task can kill its worker at most once.
WorkerIds == 1..(PoolThreads + MaxTasks)

\* SharedQueueThreadPool::new(PoolThreads): the channel, and one thread in
\* run_task for each of 0..threads, each with a clone of the receiver.
PoolNew ==
    /\ sender = "open"
    /\ queue = <<>>
    /\ workers = [w \in WorkerIds |-> IF w <= PoolThreads THEN "recv" ELSE "unborn"]
    /\ spawned = 0
    /\ ran = 0

\* kvs-server and KvsServer
VARIABLES
    engine,         \* the engine the running server was started with, or "none"
    first_engine,   \* history: the engine of the first start in the directory
    starts,         \* history: how many times the server was started
    spc,            \* serve: "idle" without a connection, "read", "exec", or how it ended
    req_reader,     \* serve: the requests on the connection not yet decoded
    client_open,    \* the client has not shut down its side of the connection
    cur,            \* serve: req, the request being answered
    sent,           \* history: what the client has sent on the connection
    decoded,        \* history: the requests serve has decoded
    results,        \* history: what the engine returned for them
    outbox          \* the responses written and flushed to the connection

serverVars == <<engine, first_engine, starts, spc, req_reader, client_open, cur, sent,
                decoded, results, outbox>>

\* What a client can put on a connection: the three requests, and bytes that
\* are no Request.
Garbage == [op |-> "garbage", key |-> "", value |-> None]

ClientRequests ==
    {[op |-> "Set", key |-> KeyOrder[1], value |-> Some(v)] : v \in {[ch |-> "x", n |-> 600]}}
        \cup {[op |-> o, key |-> KeyOrder[1], value |-> None] : o \in {"Get", "Remove"}}
        \cup {Garbage}

\* No server runs and the directory is empty.
ServerDown ==
    /\ engine = "none"
    /\ first_engine = "none"
    /\ starts = 0
    /\ spc = "idle"
    /\ req_reader = <<>>
    /\ client_open = FALSE
    /\ cur = Garbage
    /\ sent = <<>>
    /\ decoded = <<>>
    /\ results = <<>>
    /\ outbox = <<>>

\* SledKvsEngine
VARIABLES
    tree,           \* the sled Tree: key -> Option<bytes>
    sled_ret        \* what SledKvsEngine returned for each thread's call

sledVars == <<tree, sled_ret>>

\* A SledKvsEngine on an empty tree, no call made.
SledNew ==
    /\ tree = [k \in KeySet |-> None]
    /\ sled_ret = [t \in Threads |-> [kind |-> "none", val |-> None]]

\* fs::remove_file failing in compact
VARIABLES
    undeleted,      \* the stale files remove_file failed on in the compaction under way
    leftover        \* history: every file some remove_file has failed on

delVars == <<undeleted, leftover>>

\* KvsServer::run over a SharedQueueThreadPool, and serve over the KvStore
VARIABLES
    conn,           \* each connection of the pooled server: its stream and how far serve is
    serve_pc        \* each thread's place in serve on a connection to the KvStore

connVars == <<conn, serve_pc>>

\* The names of the connections the listener can yield.
ConnNames == <<"c1", "c2", "c3", "c4", "c5">>

Conns == {ConnNames[i] : i \in 1..MaxTasks}

\* A connection the listener has not yielded. st is "accepted" from the accept
\* until its task ends, and then how the task ended; stream is what incoming()
\* gave ("ok" or "err"), inbox what has arrived on it and serve has not read,
\* peer the client's side ("open" or "shutdown"), answered the responses
\* written; waited is history: every worker was busy at the accept.
NoConn == [st |-> "none", stream |-> "none", inbox |-> <<>>, peer |-> "none", answered |-> 0,
           waited |-> FALSE]

\* A connection whose task has ended: with Ok ("ok"), or with the error that
\* was logged ("refused", "decode", "network").
Ended(how) == [NoConn EXCEPT !.st = how]

Failed == {"refused", "decode", "network"}

\* A thread that serves no connection. at is its place in serve ("read" at the
\* next request, "call" in the engine, "write" at send_resp!), op the engine
\* call it has made for the request.
NoServe == [at |-> "none", op |-> "none"]

\* The server before its first connection, and no thread in serve.
NoConnections ==
    /\ conn = [c \in Conns |-> NoConn]
    /\ serve_pc = [t \in Threads |-> NoServe]

storeVars == <<files, linked, status, index, safe_point, current_gen, writer, uncompacted,
               wreaders, lock, compaction_gen, new_pos, todo, stale, clen, wpos,
               pc, req, cmd_pos, ret, readers, ops, restarts, model, lastOp, snap,
               downPc, crashes, began, fresh, written, returned, undeleted, leftover>>

vars == <<storeVars, poolVars, serverVars, sledVars, connVars>>

disk == <<files, linked>>

compactLocals == <<compaction_gen, new_pos, todo, stale, clen>>

history == <<restarts, model, lastOp, snap, downPc, crashes, began, fresh, written, returned>>

\* No compaction under way.
NoBegan == [gen |-> 0, size |-> 0]

\* The bytes in the directory's log files.
RECURSIVE DirSize(_, _)
DirSize(fs, lk) ==
    IF lk = {} THEN 0
    ELSE LET g == CHOOSE h \in lk : TRUE
         IN fs[g].size + DirSize(fs, lk \ {g})

NoReq == [op |-> "none", key |-> "", value |-> None, pre |-> "none", after |-> "none",
          known |-> {}, allowed |-> {}, safe |-> 0, held |-> [by |-> NoThread, op |-> 0]]

\* A call as it begins: with the key's last mutation (pre), the kind of its last
\* returned mutation (after), the values the key has had (known), and the
\* values a get may return then: that of the last returned mutation and that
\* of the one in progress. safe is the safe_point the call's reader has loaded,
\* held the thread that has the writer mutex as the call begins and the number
\* of its call.
Request(t, o, k, v) ==
    [op |-> o, key |-> k, value |-> v, pre |-> lastOp[k], after |-> returned[k].op,
     known |-> written[k], safe |-> 0, held |-> [by |-> lock, op |-> ops],
     allowed |-> {returned[k].value}
                 \cup {req[u].value : u \in {u \in Threads : u = lock /\ req[u].key = k}}]

NoRet == [kind |-> "none", val |-> None]

NoPos == CommandPos(0, 0, 0)

\* Every generation some reader holds a handle of.
Held(rd, wr) == wr \cup UNION {rd[t] : t \in Threads}

\* What get makes of the command read_command returned.
GetResult(r) ==
    IF r.kind # "ok" THEN Err(r.kind)
    ELSE IF r.val.op = "Set" THEN Ok(r.val.value)
    ELSE Err("UnexpectedCommandType")

\* What get(k) returns when it runs alone from this state.
Answer(k) ==
    IF index[k] = None THEN Ok(None)
    ELSE LET p == index[k][1]
         IN IF p.gen \in linked THEN GetResult(ReadCommand(files[p.gen], p)) ELSE Err("Io")

Answers == [k \in KeySet |-> Answer(k)]

\* The state KvStore::open leaves on an empty directory.
Init ==
    LET o == Opened(<<>>, {})
    IN /\ files = o.files
       /\ linked = o.linked
       /\ status = "up"
       /\ index = o.index
       /\ safe_point = 0
       /\ current_gen = o.current_gen
       /\ writer = o.current_gen
       /\ uncompacted = o.uncompacted
       /\ wreaders = {}
       /\ lock = NoThread
       /\ compaction_gen = 0
       /\ new_pos = 0
       /\ todo = <<>>
       /\ stale = <<>>
       /\ clen = 0
       /\ wpos = 0
       /\ pc = [t \in Threads |-> "idle"]
       /\ req = [t \in Threads |-> NoReq]
       /\ cmd_pos = [t \in Threads |-> NoPos]
       /\ ret = [t \in Threads |-> NoRet]
       /\ readers = [t \in Threads |-> {}]
       /\ ops = 0
       /\ restarts = 0
       /\ model = [k \in KeySet |-> None]
       /\ lastOp = [k \in KeySet |-> "none"]
       /\ snap = [k \in KeySet |-> Ok(None)]
       /\ downPc = "none"
       /\ crashes = 0
       /\ began = NoBegan
       /\ fresh = TRUE
       /\ written = [k \in KeySet |-> {}]
       /\ returned = [k \in KeySet |-> [op |-> "none", value |-> None]]
       /\ undeleted = {}
       /\ leftover = {}
       /\ PoolNew
       /\ ServerDown
       /\ SledNew
       /\ NoConnections

\* ---------------------------------------------------------------------- get

\* Mutant: get waits for the writer mutex before it looks the key up.
GetLookupLocked(t, k) ==
    /\ status = "up"
    /\ pc[t] = "idle"
    /\ lock = NoThread
    /\ req' = [req EXCEPT ![t] = Request(t, "get", k, None)]
    /\ IF index[k] = None
       THEN /\ ret' = [ret EXCEPT ![t] = Ok(None)]
            /\ pc' = [pc EXCEPT ![t] = "done"]
            /\ UNCHANGED cmd_pos
       ELSE /\ cmd_pos' = [cmd_pos EXCEPT ![t] = index[k][1]]
            /\ pc' = [pc EXCEPT ![t] = "g_stale"]
            /\ UNCHANGED ret
    /\ UNCHANGED <<disk, status, index, safe_point, current_gen, writer, uncompacted, wreaders,
                   lock, compactLocals, wpos, readers, ops, history>>

\* KvStore::get: self.index.get(&key); an absent key answers Ok(None).
GetLookup(t, k) ==
    /\ status = "up"
    /\ pc[t] = "idle"
    /\ req' = [req EXCEPT ![t] = Request(t, "get", k, None)]
    /\ IF index[k] = None
       THEN /\ ret' = [ret EXCEPT ![t] = Ok(None)]
            /\ pc' = [pc EXCEPT ![t] = "done"]
            /\ UNCHANGED cmd_pos
       ELSE /\ cmd_pos' = [cmd_pos EXCEPT ![t] = index[k][1]]
            /\ pc' = [pc EXCEPT ![t] = "g_stale"]
            /\ UNCHANGED ret
    /\ UNCHANGED <<disk, status, index, safe_point, current_gen, writer, uncompacted, wreaders,
                   lock, compactLocals, wpos, readers, ops, history>>

\* close_stale_handles: the handles of generations below safe_point are dropped.
CloseStaleHandles(rs, sp) == {g \in rs : g >= sp}

\* build_cmd_reader, its first statement: self.close_stale_handles().
GetCloseStale(t) ==
    /\ pc[t] = "g_stale"
    /\ readers' = [readers EXCEPT ![t] = CloseStaleHandles(@, safe_point)]
    /\ req' = [req EXCEPT ![t].safe = safe_point]
    /\ files' = Retained(files, linked, Held(readers', wreaders))
    /\ pc' = [pc EXCEPT ![t] = "g_open"]
    /\ UNCHANGED <<linked, status, index, safe_point, current_gen, writer, uncompacted, wreaders,
                   lock, compactLocals, wpos, cmd_pos, ret, ops, history>>

\* build_cmd_reader: the file of cmd_pos.gen is opened unless this reader
\* has it open; File::open of a file that is gone is an I/O error.
GetOpen(t) ==
    /\ pc[t] = "g_open"
    /\ IF cmd_pos[t].gen \in readers[t] \/ cmd_pos[t].gen \in linked
       THEN /\ readers' = [readers EXCEPT ![t] = @ \cup {cmd_pos[t].gen}]
            /\ pc' = [pc EXCEPT ![t] = "g_read"]
            /\ UNCHANGED ret
       ELSE /\ ret' = [ret EXCEPT ![t] = Err("Io")]
            /\ pc' = [pc EXCEPT ![t] = "done"]
            /\ UNCHANGED readers
    /\ UNCHANGED <<disk, status, index, safe_point, current_gen, writer, uncompacted, wreaders,
                   lock, compactLocals, wpos, req, cmd_pos, ops, history>>

\* build_cmd_reader: seek, take(len), and read_command's from_reader.
GetRead(t) ==
    /\ pc[t] = "g_read"
    /\ ret' = [ret EXCEPT ![t] = GetResult(ReadCommand(files[cmd_pos[t].gen], cmd_pos[t]))]
    /\ pc' = [pc EXCEPT ![t] = "done"]
    /\ UNCHANGED <<disk, status, index, safe_point, current_gen, writer, uncompacted, wreaders,
                   lock, compactLocals, wpos, req, cmd_pos, readers, ops, history>>

\* The call returns to its caller.
Return(t) ==
    /\ pc[t] = "done"
    /\ pc' = [pc EXCEPT ![t] = "idle"]
    /\ req' = [req EXCEPT ![t] = NoReq]
    /\ ret' = [ret EXCEPT ![t] = NoRet]
    /\ cmd_pos' = [cmd_pos EXCEPT ![t] = NoPos]
    /\ UNCHANGED <<disk, status, index, safe_point, current_gen, writer, uncompacted, wreaders,
                   lock, compactLocals, wpos, readers, ops, history>>

\* --------------------------------------------------------------- set, remove

\* Mutant: compaction waits for twice the threshold.
AfterWriteLate(unc) == IF unc > 2 * COMPACTION_THRESHOLD THEN "c_begin" ELSE "unlock"

\* if self.uncompacted > COMPACTION_THRESHOLD { self.compact()?; }
AfterWrite(unc) == IF unc > COMPACTION_THRESHOLD THEN "c_begin" ELSE "unlock"

\* Mutant: the guard is handed out while another thread holds it.
MutexUnguarded(holder) == TRUE

\* Mutex::lock returns the guard only when no thread holds it.
MutexFree(holder) == holder = NoThread

\* KvStore::set: self.writer.lock().unwrap()
SetLock(t, k, v) ==
    /\ status = "up"
    /\ pc[t] = "idle"
    /\ MutexFree(lock)
    /\ ops < MaxOps
    /\ lock' = t
    /\ req' = [req EXCEPT ![t] = Request(t, "set", k, Some(v))]
    /\ pc' = [pc EXCEPT ![t] = "s_write"]
    /\ ops' = ops + 1
    /\ fresh' = FALSE
    /\ UNCHANGED <<disk, status, index, safe_point, current_gen, writer, uncompacted, wreaders,
                   compactLocals, wpos, cmd_pos, ret, readers,
                   restarts, model, lastOp, snap, downPc, crashes, began, written,
                   returned>>

\* KvStoreWriter::set: let pos = self.writer.pos; serde_json::to_writer(..)
SetWrite(t) ==
    /\ pc[t] = "s_write"
    /\ wpos' = WriterPos(files[writer])
    /\ files' = [files EXCEPT ![writer] = ToWriter(@, SetCmd(req[t].key, req[t].value[1]))]
    /\ pc' = [pc EXCEPT ![t] = "s_flush"]
    /\ UNCHANGED <<linked, status, index, safe_point, current_gen, writer, uncompacted, wreaders,
                   lock, compactLocals, req, cmd_pos, ret, readers, ops, history>>

\* self.writer.flush()?, in set and in remove
WriterFlush(t) ==
    /\ pc[t] \in {"s_flush", "r_flush"}
    /\ files' = [files EXCEPT ![writer] = Flush(@)]
    /\ pc' = [pc EXCEPT ![t] = IF pc[t] = "s_flush" THEN "s_index" ELSE "r_index"]
    /\ UNCHANGED <<linked, status, index, safe_point, current_gen, writer, uncompacted, wreaders,
                   lock, compactLocals, wpos, req, cmd_pos, ret, readers, ops, history>>

\* Mutant: the record's offset is taken to be the start of the file.
SetPointerAtStart(gen, pos, end) == CommandPos(gen, 0, end - pos)

\* The pointer set stores: (self.current_gen, pos..self.writer.pos).into()
SetPointer(gen, pos, end) == CommandPos(gen, pos, end)

\* KvStoreWriter::set: the old entry's length is added to uncompacted, and
\* index.insert stores the pointer. SkipMap::insert removes an entry with the
\* same key before it inserts the new one, so an overwrite takes two steps.
SetIndex(t) ==
    /\ pc[t] = "s_index"
    /\ LET k == req[t].key
           old_cmd == index[k]
       IN IF old_cmd # None
          THEN /\ uncompacted' = uncompacted + old_cmd[1].len
               /\ index' = [index EXCEPT ![k] = None]
               /\ pc' = [pc EXCEPT ![t] = "s_insert"]
               /\ UNCHANGED <<model, lastOp, written>>
          ELSE /\ index' = [index EXCEPT ![k] =
                        Some(SetPointer(current_gen, wpos, WriterPos(files[writer])))]
               /\ model' = [model EXCEPT ![k] = req[t].value]
               /\ lastOp' = [lastOp EXCEPT ![k] = "set"]
               /\ written' = [written EXCEPT ![k] = @ \cup {req[t].value}]
               /\ pc' = [pc EXCEPT ![t] = AfterWrite(uncompacted)]
               /\ UNCHANGED uncompacted
    /\ UNCHANGED <<disk, status, safe_point, current_gen, writer, wreaders, lock, compactLocals,
                   wpos, req, cmd_pos, ret, readers, ops, restarts, snap, downPc, crashes, began,
                   fresh, returned>>

\* SkipMap::insert, its second half on an overwrite: the new entry goes in.
SetInsert(t) ==
    /\ pc[t] = "s_insert"
    /\ index' = [index EXCEPT ![req[t].key] =
                    Some(SetPointer(current_gen, wpos, WriterPos(files[writer])))]
    /\ model' = [model EXCEPT ![req[t].key] = req[t].value]
    /\ lastOp' = [lastOp EXCEPT ![req[t].key] = "set"]
    /\ written' = [written EXCEPT ![req[t].key] = @ \cup {req[t].value}]
    /\ pc' = [pc EXCEPT ![t] = AfterWrite(uncompacted)]
    /\ UNCHANGED <<disk, status, safe_point, current_gen, writer, uncompacted, wreaders, lock,
                   compactLocals, wpos, req, cmd_pos, ret, readers, ops, restarts, snap,
                   downPc, crashes, began, fresh, returned>>

\* Mutant: the Remove record is written before the key is looked up.
RemoveAbsentLogged(t) ==
    /\ ret' = [ret EXCEPT ![t] = Err("KeyNotFound")]
    /\ pc' = [pc EXCEPT ![t] = "done"]
    /\ files' = [files EXCEPT ![writer] = Flush(ToWriter(@, RemoveCmd(req'[t].key)))]
    /\ UNCHANGED <<linked, index, uncompacted, lock, ops, fresh>>

\* What remove does with a key that is not in the index: Err(KeyNotFound),
\* with the state as it was.
RemoveAbsent(t) ==
    /\ ret' = [ret EXCEPT ![t] = Err("KeyNotFound")]
    /\ pc' = [pc EXCEPT ![t] = "done"]
    /\ UNCHANGED <<disk, index, uncompacted, lock, ops, fresh>>

\* KvStore::remove: the lock taken, and KvStoreWriter::remove's test
\* self.index.contains_key(&key).
RemoveLock(t, k) ==
    /\ status = "up"
    /\ pc[t] = "idle"
    /\ MutexFree(lock)
    /\ index[k] # None => ops < MaxOps
    /\ req' = [req EXCEPT ![t] = Request(t, "remove", k, None)]
    /\ IF index[k] # None
       THEN /\ lock' = t
            /\ pc' = [pc EXCEPT ![t] = "r_write"]
            /\ ops' = ops + 1
            /\ fresh' = FALSE
            /\ UNCHANGED <<disk, index, uncompacted, ret>>
       ELSE RemoveAbsent(t)
    /\ UNCHANGED <<status, safe_point, current_gen, writer, wreaders, compactLocals, wpos,
                   cmd_pos, readers, restarts, model, lastOp, snap, downPc, crashes, began,
                   written, returned>>

\* KvStoreWriter::remove: let pos = self.writer.pos; serde_json::to_writer(..)
RemoveWrite(t) ==
    /\ pc[t] = "r_write"
    /\ wpos' = WriterPos(files[writer])
    /\ files' = [files EXCEPT ![writer] = ToWriter(@, RemoveCmd(req[t].key))]
    /\ pc' = [pc EXCEPT ![t] = "r_flush"]
    /\ UNCHANGED <<linked, status, index, safe_point, current_gen, writer, uncompacted, wreaders,
                   lock, compactLocals, req, cmd_pos, ret, readers, ops, history>>

\* Mutant: the entry stays in the index.
IndexRemoveKept(idx, k) == idx

\* self.index.remove(&key)
IndexRemove(idx, k) == [idx EXCEPT ![k] = None]

\* Mutant: the Remove record itself is not counted.
RemoveUncompactedOldOnly(old_len, pos, end) == old_len

\* The bytes remove adds to uncompacted: the removed entry's length and the
\* length of the Remove record itself.
RemoveUncompacted(old_len, pos, end) == old_len + (end - pos)

\* KvStoreWriter::remove: index.remove(&key) and the uncompacted bytes.
RemoveIndex(t) ==
    /\ pc[t] = "r_index"
    /\ LET k == req[t].key
           unc == uncompacted
                    + RemoveUncompacted(index[k][1].len, wpos, WriterPos(files[writer]))
       IN /\ index' = IndexRemove(index, k)
          /\ uncompacted' = unc
          /\ model' = [model EXCEPT ![k] = None]
          /\ lastOp' = [lastOp EXCEPT ![k] = "remove"]
          /\ written' = [written EXCEPT ![k] = @ \cup {None}]
          /\ pc' = [pc EXCEPT ![t] = AfterWrite(unc)]
    /\ UNCHANGED <<disk, status, safe_point, current_gen, writer, wreaders, lock, compactLocals,
                   wpos, req, cmd_pos, ret, readers, ops, restarts, snap, downPc, crashes, began,
                   fresh, returned>>

\* Mutant: the MutexGuard outlives the call.
GuardKept(holder) == holder

\* The MutexGuard of self.writer.lock().unwrap() goes out of scope at the end
\* of KvStore::set and KvStore::remove.
GuardDropped(holder) == NoThread

\* set or remove returns and the MutexGuard is dropped.
Unlock(t) ==
    /\ pc[t] \in {"unlock", "c_done"}
    /\ lock' = GuardDropped(lock)
    /\ ret' = [ret EXCEPT ![t] = IF @ = NoRet THEN Ok(None) ELSE @]
    /\ pc' = [pc EXCEPT ![t] = "done"]
    /\ returned' = [returned EXCEPT ![req[t].key] = [op |-> req[t].op, value |-> model[req[t].key]]]
    /\ compaction_gen' = 0
    /\ new_pos' = 0
    /\ todo' = <<>>
    /\ stale' = <<>>
    /\ clen' = 0
    /\ wpos' = 0
    /\ began' = NoBegan
    /\ UNCHANGED <<disk, status, index, safe_point, current_gen, writer, uncompacted, wreaders,
                   req, cmd_pos, readers, ops, restarts, model, lastOp, snap, downPc,
                   crashes, fresh, written>>

\* --------------------------------------------------------------- compaction

\* Mutant: the iteration stops after the first entry.
IndexFirstKey(idx, order) ==
    LET ks == SelectSeq(order, LAMBDA k : idx[k] # None)
    IN IF ks = <<>> THEN <<>> ELSE <<ks[1]>>

\* The keys of the index in key order: what self.index.iter() yields.
RECURSIVE IndexKeys(_, _)
IndexKeys(idx, order) ==
    IF order = <<>> THEN <<>>
    ELSE (IF idx[Head(order)] # None THEN <<Head(order)>> ELSE <<>>)
         \o IndexKeys(idx, Tail(order))

\* Mutant: the writer moves to the file of the compaction's generation.
NextWriteGenShared(gen) == gen + 1

\* self.current_gen += 2: the generation the writer moves to.
NextWriteGen(gen) == gen + 2

\* compact: compaction_gen = current_gen + 1; current_gen += 2; the writer
\* moves to the new file of current_gen.
CompactBegin(t) ==
    /\ pc[t] = "c_begin"
    /\ compaction_gen' = current_gen + 1
    /\ current_gen' = NextWriteGen(current_gen)
    /\ writer' = current_gen'
    /\ files' = NewLogFile(files, current_gen')
    /\ linked' = linked \cup {current_gen'}
    /\ snap' = Answers
    /\ began' = [gen |-> current_gen, size |-> DirSize(files, linked)]
    /\ pc' = [pc EXCEPT ![t] = "c_create"]
    /\ UNCHANGED <<status, index, safe_point, uncompacted, wreaders, lock, new_pos, todo,
                   stale, clen, wpos, req, cmd_pos, ret, readers, ops, restarts, model,
                   lastOp, downPc, crashes, fresh, written, returned>>

\* compact: the compaction file is created, new_pos = 0, and the walk over
\* the index begins.
CompactCreate(t) ==
    /\ pc[t] = "c_create"
    /\ files' = NewLogFile(files, compaction_gen)
    /\ linked' = linked \cup {compaction_gen}
    /\ new_pos' = 0
    /\ todo' = IndexKeys(index, KeyOrder)
    /\ pc' = [pc EXCEPT ![t] = "c_copy"]
    /\ UNCHANGED <<status, index, safe_point, current_gen, writer, uncompacted, wreaders, lock,
                   compaction_gen, stale, clen, wpos, req, cmd_pos, ret, readers, ops,
                   history>>

\* compact, for the next entry of the walk: the writer's own reader reads the
\* entry (build_cmd_reader) and io::copy appends its bytes to the compaction
\* writer; with no entry left the loop ends. An entry that cannot be read ends
\* compact with the error, and the compaction writer is dropped, which flushes
\* it.
CompactCopy(t) ==
    /\ pc[t] = "c_copy"
    /\ IF todo = <<>>
       THEN /\ pc' = [pc EXCEPT ![t] = "c_flush"]
            /\ UNCHANGED <<files, wreaders, clen, ret>>
       ELSE LET entry == index[Head(todo)][1]
                kept == CloseStaleHandles(wreaders, safe_point)
                r == IF entry.gen \in DOMAIN files
                     THEN ReadCommand(files[entry.gen], entry) ELSE Err("Io")
            IN IF (entry.gen \in kept \/ entry.gen \in linked) /\ r.kind = "ok"
               THEN /\ wreaders' = kept \cup {entry.gen}
                    /\ files' = Retained(
                           [files EXCEPT ![compaction_gen] = CopyTo(@, r.val)],
                           linked, Held(readers, wreaders'))
                    /\ clen' = CmdLen(r.val)
                    /\ pc' = [pc EXCEPT ![t] = "c_mark"]
                    /\ UNCHANGED ret
               ELSE /\ ret' = [ret EXCEPT ![t] = Err(IF r.kind = "ok" THEN "Io" ELSE r.kind)]
                    /\ files' = [files EXCEPT ![compaction_gen] = Flush(@)]
                    /\ pc' = [pc EXCEPT ![t] = "unlock"]
                    /\ UNCHANGED <<wreaders, clen>>
    /\ UNCHANGED <<linked, status, index, safe_point, current_gen, writer, uncompacted, lock,
                   compaction_gen, new_pos, todo, stale, wpos, req, cmd_pos, readers, ops,
                   history>>

\* compact: self.index.insert of the entry's key, its first half: SkipMap
\* removes the entry the key has.
CompactMark(t) ==
    /\ pc[t] = "c_mark"
    /\ index' = [index EXCEPT ![Head(todo)] = None]
    /\ pc' = [pc EXCEPT ![t] = "c_insert"]
    /\ UNCHANGED <<disk, status, safe_point, current_gen, writer, uncompacted, wreaders, lock,
                   compactLocals, wpos, req, cmd_pos, ret, readers, ops, history>>

\* Mutant: every copied record is taken to start the compaction file.
CompactPointerAtStart(gen, pos, len) == CommandPos(gen, 0, len)

\* The pointer compaction stores: (compaction_gen, new_pos..new_pos + len).into()
CompactPointer(gen, pos, len) == CommandPos(gen, pos, pos + len)

\* compact: self.index.insert, its second half, and new_pos += len.
CompactInsert(t) ==
    /\ pc[t] = "c_insert"
    /\ index' = [index EXCEPT ![Head(todo)] = Some(CompactPointer(compaction_gen, new_pos, clen))]
    /\ new_pos' = new_pos + clen
    /\ todo' = Tail(todo)
    /\ pc' = [pc EXCEPT ![t] = "c_copy"]
    /\ UNCHANGED <<disk, status, safe_point, current_gen, writer, uncompacted, wreaders, lock,
                   compaction_gen, stale, clen, wpos, req, cmd_pos, ret, readers, ops,
                   history>>

\* Mutant: compact goes on without flushing the compaction writer.
CompactFlushSkipped(t) ==
    /\ pc[t] = "c_flush"
    /\ pc' = [pc EXCEPT ![t] = "c_safe"]
    /\ UNCHANGED <<disk, status, index, safe_point, current_gen, writer, uncompacted, wreaders,
                   lock, compactLocals, wpos, req, cmd_pos, ret, readers, ops, history>>

\* compact: compaction_writer.flush()?
CompactFlush(t) ==
    /\ pc[t] = "c_flush"
    /\ files' = [files EXCEPT ![compaction_gen] = Flush(@)]
    /\ pc' = [pc EXCEPT ![t] = "c_safe"]
    /\ UNCHANGED <<linked, status, index, safe_point, current_gen, writer, uncompacted, wreaders,
                   lock, compactLocals, wpos, req, cmd_pos, ret, readers, ops, history>>

\* Mutant: only the files of the writer's last two generations are deleted.
StaleGensNewest(lk, gen) == SortedGenList({g \in lk : g < gen /\ g >= gen - 2})

\* Mutant: no file is deleted.
StaleGensNone(lk, gen) == <<>>

\* The generations compact deletes: those of the directory below compaction_gen.
StaleGens(lk, gen) == SortedGenList({g \in lk : g < gen})

\* Mutant: the generation of the new current file is published.
PublishedCurrentGen(cgen, gen) == gen

\* Mutant: the safe point is set back to its first value.
PublishedReset(cgen, gen) == 0

\* What compact stores in safe_point: compaction_gen.
PublishedSafePoint(cgen, gen) == cgen

\* compact: safe_point.store(compaction_gen), the writer's reader closes its
\* stale handles, and the stale generations are listed.
CompactSafePoint(t) ==
    /\ pc[t] = "c_safe"
    /\ safe_point' = PublishedSafePoint(compaction_gen, current_gen)
    /\ wreaders' = CloseStaleHandles(wreaders, safe_point')
    /\ files' = Retained(files, linked, Held(readers, wreaders'))
    /\ stale' = StaleGens(linked, compaction_gen)
    /\ pc' = [pc EXCEPT ![t] = "c_delete"]
    /\ UNCHANGED <<linked, status, index, current_gen, writer, uncompacted, lock, compaction_gen,
                   new_pos, todo, clen, wpos, req, cmd_pos, ret, readers, ops, history>>

\* compact: fs::remove_file of the next stale file; after the last one,
\* self.uncompacted = 0 and compact returns.
CompactDelete(t) ==
    /\ pc[t] = "c_delete"
    /\ IF stale = <<>>
       THEN /\ uncompacted' = 0
            /\ pc' = [pc EXCEPT ![t] = "c_done"]
            /\ UNCHANGED <<disk, stale>>
       ELSE /\ linked' = linked \ {Head(stale)}
            /\ files' = Retained(files, linked', Held(readers, wreaders))
            /\ stale' = Tail(stale)
            /\ UNCHANGED <<uncompacted, pc>>
    /\ UNCHANGED <<status, index, safe_point, current_gen, writer, wreaders, lock, compaction_gen,
                   new_pos, todo, clen, wpos, req, cmd_pos, ret, readers, ops, history>>

\* compact: fs::remove_file of the next stale file returns Err, as it does
\* where an open file cannot be deleted; the error is logged and the loop goes
\* on with the file still in the directory.
CompactDeleteFails(t) ==
    /\ pc[t] = "c_delete"
    /\ stale # <<>>
    /\ stale' = Tail(stale)
    /\ undeleted' = undeleted \cup {Head(stale)}
    /\ leftover' = leftover \cup {Head(stale)}
    /\ UNCHANGED <<disk, status, index, safe_point, current_gen, writer, uncompacted, wreaders,
                   lock, compaction_gen, new_pos, todo, clen, wpos, pc, req, cmd_pos, ret,
                   readers, ops, history>>

\* compact: new_log_file(&self.path, self.current_gen)? returns Err after
\* self.current_gen += 2: no file is created, self.writer is not assigned, and
\* set or remove returns the error.
CompactBeginFails(t) ==
    /\ pc[t] = "c_begin"
    /\ compaction_gen' = current_gen + 1
    /\ current_gen' = NextWriteGen(current_gen)
    /\ ret' = [ret EXCEPT ![t] = Err("Io")]
    /\ pc' = [pc EXCEPT ![t] = "unlock"]
    /\ UNCHANGED <<disk, status, index, safe_point, writer, uncompacted, wreaders, lock,
                   new_pos, todo, stale, clen, wpos, req, cmd_pos, readers, ops, history>>

\* compact: new_log_file(&self.path, compaction_gen)? returns Err: the writer
\* has moved to its new file and set or remove returns the error.
CompactCreateFails(t) ==
    /\ pc[t] = "c_create"
    /\ ret' = [ret EXCEPT ![t] = Err("Io")]
    /\ pc' = [pc EXCEPT ![t] = "unlock"]
    /\ UNCHANGED <<disk, status, index, safe_point, current_gen, writer, uncompacted,
                   wreaders, lock, compactLocals, wpos, req, cmd_pos, readers, ops, history>>

\* ------------------------------------------------------ close, crash, open

\* The memory of a process that is gone.
Down(kind) ==
    /\ status' = "down"
    /\ downPc' = kind
    /\ crashes' = IF kind = "closed" THEN crashes ELSE crashes + 1
    /\ restarts' = restarts + 1
    /\ files' = [g \in linked |-> Durable(files[g])]
    /\ index' = EmptyIndex
    /\ safe_point' = 0
    /\ current_gen' = 0
    /\ writer' = 0
    /\ uncompacted' = 0
    /\ wreaders' = {}
    /\ lock' = NoThread
    /\ compaction_gen' = 0
    /\ new_pos' = 0
    /\ todo' = <<>>
    /\ stale' = <<>>
    /\ clen' = 0
    /\ wpos' = 0
    /\ began' = NoBegan
    /\ pc' = [t \in Threads |-> "idle"]
    /\ req' = [t \in Threads |-> NoReq]
    /\ cmd_pos' = [t \in Threads |-> NoPos]
    /\ ret' = [t \in Threads |-> NoRet]
    /\ readers' = [t \in Threads |-> {}]
    /\ UNCHANGED <<linked, ops, model, lastOp, fresh, written, returned>>

\* Every clone of the engine is dropped while no call is in progress.
Close ==
    /\ status = "up"
    /\ restarts < MaxRestarts
    /\ \A t \in Threads : pc[t] = "idle"
    /\ snap' = Answers
    /\ Down("closed")

\* The process dies inside a set or a remove: the bytes still in a BufWriter
\* are lost.
Crash ==
    /\ status = "up"
    /\ restarts < MaxRestarts
    /\ lock # NoThread
    /\ UNCHANGED snap
    /\ Down(pc[lock])

\* KvStore::open on the directory the engine left.
Open ==
    /\ status = "down"
    /\ LET o == Opened(files, linked)
       IN IF o.ok
          THEN /\ status' = "up"
               /\ files' = o.files
               /\ linked' = o.linked
               /\ index' = o.index
               /\ uncompacted' = o.uncompacted
               /\ current_gen' = o.current_gen
               /\ writer' = o.current_gen
               /\ fresh' = TRUE
          ELSE /\ status' = "failed"
               /\ UNCHANGED <<disk, index, uncompacted, current_gen, writer, fresh>>
    /\ UNCHANGED <<safe_point, wreaders, lock, compactLocals, wpos, pc, req, cmd_pos, ret,
                   readers, ops, restarts, model, lastOp, snap, downPc, crashes, began, written,
                   returned>>

\* ----------------------------------------------------------- specifications

\* The engine used by several threads, each with its clone.
\* A step of the KvStore alone, within the bound on the shared engine's writes.
Alone ==
    ops' <= MaxSharedOps /\ UNCHANGED <<poolVars, serverVars, sledVars, delVars, connVars>>

Next ==
    \E t \in Threads :
        \/ (\E k \in KeySet : GetLookup(t, k)) /\ Alone
        \/ GetCloseStale(t) /\ Alone
        \/ GetOpen(t) /\ Alone
        \/ GetRead(t) /\ Alone
        \/ (\E k \in KeySet, v \in Values : SetLock(t, k, v)) /\ Alone
        \/ SetWrite(t) /\ Alone
        \/ WriterFlush(t) /\ Alone
        \/ SetIndex(t) /\ Alone
        \/ SetInsert(t) /\ Alone
        \/ (\E k \in KeySet : RemoveLock(t, k)) /\ Alone
        \/ RemoveWrite(t) /\ Alone
        \/ RemoveIndex(t) /\ Alone
        \/ CompactBegin(t) /\ Alone
        \/ CompactCreate(t) /\ Alone
        \/ CompactCopy(t) /\ Alone
        \/ CompactMark(t) /\ Alone
        \/ CompactInsert(t) /\ Alone
        \/ CompactFlush(t) /\ Alone
        \/ CompactSafePoint(t) /\ Alone
        \/ CompactDelete(t) /\ Alone
        \/ Unlock(t) /\ Alone
        \/ Return(t) /\ Alone

Spec == Init /\ [][Next]_vars

\* String::into_bytes: the bytes of a string, which are UTF-8.
IntoBytes(v) == [utf8 |-> TRUE, ch |-> v.ch, n |-> v.n]

\* String::from_utf8 on the bytes of an IVec.
FromUtf8(bytes) ==
    IF bytes.utf8 THEN Ok(Some([ch |-> bytes.ch, n |-> bytes.n])) ELSE Err("Utf8")

\* SledKvsEngine::set: tree.insert(key, value.into_bytes())
SledSet(tr, k, v) == [tree |-> [tr EXCEPT ![k] = Some(IntoBytes(v))], ret |-> Ok(None)]

\* SledKvsEngine::get: tree.get(key), the bytes decoded as UTF-8.
SledGet(tr, k) ==
    [tree |-> tr, ret |-> IF tr[k] = None THEN Ok(None) ELSE FromUtf8(tr[k][1])]

\* Mutant: remove of a key that is not in the tree returns Ok.
SledRemoveLenient(tr, k) == [tree |-> [tr EXCEPT ![k] = None], ret |-> Ok(None)]

\* SledKvsEngine::remove: tree.remove(key)?.ok_or(KvsError::KeyNotFound)?
SledRemove(tr, k) ==
    IF tr[k] = None
    THEN [tree |-> tr, ret |-> Err("KeyNotFound")]
    ELSE [tree |-> [tr EXCEPT ![k] = None], ret |-> Ok(None)]

\* impl KvsEngine for SledKvsEngine: the call of a request.
SledCall(tr, request) ==
    CASE request.op = "set" -> SledSet(tr, request.key, request.value[1])
      [] request.op = "get" -> SledGet(tr, request.key)
      [] request.op = "remove" -> SledRemove(tr, request.key)

\* The same calls made on a SledKvsEngine: each call thread t begins on the
\* KvStore is made on the sled engine too, and its result is kept until the
\* KvStore's call has returned.
SledStep(t) ==
    IF pc[t] = "idle" /\ pc'[t] # "idle"
    THEN LET o == SledCall(tree, req'[t])
         IN /\ tree' = o.tree
            /\ sled_ret' = [sled_ret EXCEPT ![t] = o.ret]
    ELSE IF pc'[t] = "idle"
         THEN /\ sled_ret' = [sled_ret EXCEPT ![t] = [kind |-> "none", val |-> None]]
              /\ UNCHANGED tree
         ELSE UNCHANGED <<tree, sled_ret>>

\* The engine used by one thread, closed or crashed, and opened again, with a
\* SledKvsEngine given the same calls.
WithSled == SledStep("t1") /\ UNCHANGED <<poolVars, serverVars, delVars, connVars>>

SeqNext ==
    \/ (\E k \in KeySet : GetLookup("t1", k)) /\ WithSled
    \/ GetCloseStale("t1") /\ WithSled
    \/ GetOpen("t1") /\ WithSled
    \/ GetRead("t1") /\ WithSled
    \/ (\E k \in KeySet, v \in Values : SetLock("t1", k, v)) /\ WithSled
    \/ SetWrite("t1") /\ WithSled
    \/ WriterFlush("t1") /\ WithSled
    \/ SetIndex("t1") /\ WithSled
    \/ SetInsert("t1") /\ WithSled
    \/ (\E k \in KeySet : RemoveLock("t1", k)) /\ WithSled
    \/ RemoveWrite("t1") /\ WithSled
    \/ RemoveIndex("t1") /\ WithSled
    \/ CompactBegin("t1") /\ WithSled
    \/ CompactCreate("t1") /\ WithSled
    \/ CompactCopy("t1") /\ WithSled
    \/ CompactMark("t1") /\ WithSled
    \/ CompactInsert("t1") /\ WithSled
    \/ CompactFlush("t1") /\ WithSled
    \/ CompactSafePoint("t1") /\ WithSled
    \/ CompactDelete("t1") /\ WithSled
    \/ Unlock("t1") /\ WithSled
    \/ Return("t1") /\ WithSled
    \/ Close /\ WithSled
    \/ Crash /\ WithSled
    \/ Open /\ WithSled

SeqSpec == Init /\ [][SeqNext]_vars

\* A step that leaves the record of failed deletions as it is.
NoFailure == UNCHANGED <<poolVars, serverVars, sledVars, delVars, connVars>>

\* The engine used by one thread where fs::remove_file can fail.
DelNext ==
    \/ (\E k \in KeySet : GetLookup("t1", k)) /\ NoFailure
    \/ GetCloseStale("t1") /\ NoFailure
    \/ GetOpen("t1") /\ NoFailure
    \/ GetRead("t1") /\ NoFailure
    \/ (\E k \in KeySet, v \in Values : SetLock("t1", k, v)) /\ NoFailure
    \/ SetWrite("t1") /\ NoFailure
    \/ WriterFlush("t1") /\ NoFailure
    \/ SetIndex("t1") /\ NoFailure
    \/ SetInsert("t1") /\ NoFailure
    \/ (\E k \in KeySet : RemoveLock("t1", k)) /\ NoFailure
    \/ RemoveWrite("t1") /\ NoFailure
    \/ RemoveIndex("t1") /\ NoFailure
    \/ CompactBegin("t1") /\ NoFailure
    \/ CompactCreate("t1") /\ NoFailure
    \/ CompactCopy("t1") /\ NoFailure
    \/ CompactMark("t1") /\ NoFailure
    \/ CompactInsert("t1") /\ NoFailure
    \/ CompactFlush("t1") /\ NoFailure
    \/ CompactSafePoint("t1") /\ undeleted' = {}
          /\ UNCHANGED <<poolVars, serverVars, sledVars, leftover, connVars>>
    \/ CompactDelete("t1") /\ NoFailure
    \/ CompactDeleteFails("t1") /\ UNCHANGED <<poolVars, serverVars, sledVars, connVars>>
    \/ Unlock("t1") /\ NoFailure
    \/ Return("t1") /\ NoFailure

DelSpec == Init /\ [][DelNext]_vars

\* What KvStore writes where fs::remove_file can fail and the store is closed
\* and opened again: set, remove and compact by one thread. get is left out: it
\* changes neither the index, the files of the directory nor uncompacted.
ReopenNext ==
    \/ (\E k \in KeySet, v \in Values : SetLock("t1", k, v)) /\ NoFailure
    \/ SetWrite("t1") /\ NoFailure
    \/ WriterFlush("t1") /\ NoFailure
    \/ SetIndex("t1") /\ NoFailure
    \/ SetInsert("t1") /\ NoFailure
    \/ (\E k \in KeySet : RemoveLock("t1", k)) /\ NoFailure
    \/ RemoveWrite("t1") /\ NoFailure
    \/ RemoveIndex("t1") /\ NoFailure
    \/ CompactBegin("t1") /\ NoFailure
    \/ CompactCreate("t1") /\ NoFailure
    \/ CompactCopy("t1") /\ NoFailure
    \/ CompactMark("t1") /\ NoFailure
    \/ CompactInsert("t1") /\ NoFailure
    \/ CompactFlush("t1") /\ NoFailure
    \/ CompactSafePoint("t1") /\ undeleted' = {}
          /\ UNCHANGED <<poolVars, serverVars, sledVars, leftover, connVars>>
    \/ CompactDelete("t1") /\ NoFailure
    \/ CompactDeleteFails("t1") /\ UNCHANGED <<poolVars, serverVars, sledVars, connVars>>
    \/ Unlock("t1") /\ NoFailure
    \/ Return("t1") /\ NoFailure
    \/ Close /\ NoFailure
    \/ Open /\ NoFailure

ReopenSpec == Init /\ [][ReopenNext]_vars

\* The engine used by one thread where new_log_file can fail in compact.
IoNext ==
    \/ (\E k \in KeySet : GetLookup("t1", k)) /\ NoFailure
    \/ GetCloseStale("t1") /\ NoFailure
    \/ GetOpen("t1") /\ NoFailure
    \/ GetRead("t1") /\ NoFailure
    \/ (\E k \in KeySet, v \in Values : SetLock("t1", k, v)) /\ NoFailure
    \/ SetWrite("t1") /\ NoFailure
    \/ WriterFlush("t1") /\ NoFailure
    \/ SetIndex("t1") /\ NoFailure
    \/ SetInsert("t1") /\ NoFailure
    \/ (\E k \in KeySet : RemoveLock("t1", k)) /\ NoFailure
    \/ RemoveWrite("t1") /\ NoFailure
    \/ RemoveIndex("t1") /\ NoFailure
    \/ CompactBegin("t1") /\ NoFailure
    \/ CompactBeginFails("t1") /\ NoFailure
    \/ CompactCreate("t1") /\ NoFailure
    \/ CompactCreateFails("t1") /\ NoFailure
    \/ CompactCopy("t1") /\ NoFailure
    \/ CompactMark("t1") /\ NoFailure
    \/ CompactInsert("t1") /\ NoFailure
    \/ CompactFlush("t1") /\ NoFailure
    \/ CompactSafePoint("t1") /\ NoFailure
    \/ CompactDelete("t1") /\ NoFailure
    \/ Unlock("t1") /\ NoFailure
    \/ Return("t1") /\ NoFailure

IoSpec == Init /\ [][IoNext]_vars

\* -------------------------------------------------------------- thread pool

\* The tasks a caller can spawn: one that returns and one that panics.
Tasks == {"returns", "panics"}

\* SharedQueueThreadPool::spawn: self.sender.send(Box::new(job))
PoolSpawn(task) ==
    /\ sender = "open"
    /\ spawned < MaxTasks
    /\ queue' = Append(queue, task)
    /\ spawned' = spawned + 1
    /\ UNCHANGED <<sender, workers, ran>>

\* The pool is dropped, and its sender with it.
PoolDrop ==
    /\ sender = "open"
    /\ sender' = "dropped"
    /\ UNCHANGED <<queue, workers, spawned, ran>>

\* Mutant: recv() hands the task out and leaves it in the channel.
Peeked(q) == q

\* The channel after recv() has taken its oldest message: a message goes to
\* one receiver.
Received(q) == Tail(q)

\* run_task: receiver.0.recv() yields Ok(task) while the channel holds one, and
\* the worker calls it.
WorkerRecv(w) ==
    /\ workers[w] = "recv"
    /\ queue # <<>>
    /\ workers' = [workers EXCEPT ![w] = Head(queue)]
    /\ queue' = Received(queue)
    /\ ran' = ran + 1
    /\ UNCHANGED <<sender, spawned>>

\* run_task: recv() yields Err once the channel is empty and its sender is
\* gone; the arm logs the message.
WorkerRecvErr(w) ==
    /\ workers[w] = "recv"
    /\ queue = <<>>
    /\ sender = "dropped"
    /\ workers' = [workers EXCEPT ![w] = "logged"]
    /\ UNCHANGED <<sender, queue, spawned, ran>>

\* run_task: the Err arm has no break, so the loop comes back to recv().
WorkerLoop(w) ==
    /\ workers[w] = "logged"
    /\ workers' = [workers EXCEPT ![w] = "recv"]
    /\ UNCHANGED <<sender, queue, spawned, ran>>

\* run_task: task() returns and the loop comes back to recv().
TaskReturn(w) ==
    /\ workers[w] = "returns"
    /\ workers' = [workers EXCEPT ![w] = "recv"]
    /\ UNCHANGED <<sender, queue, spawned, ran>>

\* run_task: task() panics and the thread unwinds.
TaskPanic(w) ==
    /\ workers[w] = "panics"
    /\ workers' = [workers EXCEPT ![w] = "panicking"]
    /\ UNCHANGED <<sender, queue, spawned, ran>>

\* Mutant: the panicking thread's receiver is dropped and no thread is spawned.
NoReplacement(ws, w) == [ws EXCEPT ![w] = "gone"]

\* TaskReceiver::drop in a panicking thread: a new thread runs run_task with a
\* clone of the receiver, and the panicking thread is gone.
Replacement(ws, w) ==
    LET n == CHOOSE i \in WorkerIds :
                 ws[i] = "unborn" /\ \A j \in WorkerIds : ws[j] = "unborn" => i <= j
    IN [ws EXCEPT ![w] = "gone", ![n] = "recv"]

\* The unwinding drops run_task's receiver: TaskReceiver::drop.
ReceiverDrop(w) ==
    /\ workers[w] = "panicking"
    /\ workers' = Replacement(workers, w)
    /\ UNCHANGED <<sender, queue, spawned, ran>>

\* One step of a worker thread.
WorkerStep(w) ==
    \/ WorkerRecv(w) /\ UNCHANGED <<storeVars, serverVars, sledVars, connVars>>
    \/ WorkerRecvErr(w) /\ UNCHANGED <<storeVars, serverVars, sledVars, connVars>>
    \/ WorkerLoop(w) /\ UNCHANGED <<storeVars, serverVars, sledVars, connVars>>
    \/ TaskReturn(w) /\ UNCHANGED <<storeVars, serverVars, sledVars, connVars>>
    \/ TaskPanic(w) /\ UNCHANGED <<storeVars, serverVars, sledVars, connVars>>
    \/ ReceiverDrop(w) /\ UNCHANGED <<storeVars, serverVars, sledVars, connVars>>

PoolNext ==
    \/ (\E task \in Tasks : PoolSpawn(task)) /\ UNCHANGED <<storeVars, serverVars, sledVars, connVars>>
    \/ PoolDrop /\ UNCHANGED <<storeVars, serverVars, sledVars, connVars>>
    \/ \E w \in WorkerIds : WorkerStep(w)

\* The pool with its callers and its workers.
PoolSpec == Init /\ [][PoolNext]_vars

\* The pool when every worker thread is scheduled again and again.
PoolFairSpec == PoolSpec /\ \A w \in WorkerIds : WF_vars(WorkerStep(w))

\* ------------------------------------------- KvsServer::run over the pool

\* What arrives on a connection first: a request, bytes that are no Request,
\* or a network error ("broken").
Scripts == {<<"request">>, <<"garbage">>, <<"broken">>}

\* What listener.incoming() yields: Ok(stream) with what arrives on it, or Err.
Streams == {[stream |-> "ok", inbox |-> script] : script \in Scripts}
               \cup {[stream |-> "err", inbox |-> <<>>]}

\* run: the listener yields a connection and the closure that serves it is
\* given to the pool.
Accept(sp) ==
    LET c == ConnNames[spawned + 1]
    IN /\ PoolSpawn(c)
       /\ conn' = [conn EXCEPT ![c] =
                      [st |-> "accepted", stream |-> sp.stream, inbox |-> sp.inbox,
                       peer |-> IF sp.stream = "ok" THEN "open" ELSE "none",
                       answered |-> 0,
                       waited |-> \A w \in WorkerIds : workers[w] # "recv"]]
       /\ UNCHANGED serve_pc

\* The client has its response and shuts its side of the connection down.
PeerShutdown(c) ==
    /\ conn[c].st = "accepted" /\ conn[c].peer = "open"
    /\ conn[c].answered > 0 /\ conn[c].inbox = <<>>
    /\ conn' = [conn EXCEPT ![c].peer = "shutdown"]
    /\ UNCHANGED <<poolVars, serve_pc>>

\* A worker receives the closure of a connection and calls it.
ConnRecv(w) ==
    /\ WorkerRecv(w)
    /\ UNCHANGED <<conn, serve_pc>>

\* Mutant: the error is unwrapped and takes the worker thread with it.
ErrorUnwrapped(ws, w) == [ws EXCEPT ![w] = "gone"]

\* The closure logs the error (error!) and returns, and run_task's loop comes
\* back to recv().
ErrorLogged(ws, w) == [ws EXCEPT ![w] = "recv"]

\* Mutant: the worker takes the next task after every response.
WorkerYields(ws, w) == [ws EXCEPT ![w] = "recv"]

\* serve's loop goes on to the next request in the same call of the closure.
WorkerStays(ws, w) == ws

\* The closure's Err(e) arm: the listener had yielded an error.
ConnRefused(w) ==
    /\ workers[w] \in Conns
    /\ conn[workers[w]].stream = "err"
    /\ conn' = [conn EXCEPT ![workers[w]] = Ended("refused")]
    /\ workers' = ErrorLogged(workers, w)
    /\ UNCHANGED <<sender, queue, spawned, ran, serve_pc>>

\* serve: a request is decoded, the engine is called, and the response is
\* written and flushed.
ConnRequest(w) ==
    /\ workers[w] \in Conns
    /\ conn[workers[w]].stream = "ok"
    /\ conn[workers[w]].inbox # <<>> /\ Head(conn[workers[w]].inbox) = "request"
    /\ conn' = [conn EXCEPT ![workers[w]].inbox = Tail(@), ![workers[w]].answered = @ + 1]
    /\ workers' = WorkerStays(workers, w)
    /\ UNCHANGED <<sender, queue, spawned, ran, serve_pc>>

\* serve: `request?` returns the decoding error.
ConnDecodeError(w) ==
    /\ workers[w] \in Conns
    /\ conn[workers[w]].stream = "ok"
    /\ conn[workers[w]].inbox # <<>> /\ Head(conn[workers[w]].inbox) = "garbage"
    /\ conn' = [conn EXCEPT ![workers[w]] = Ended("decode")]
    /\ workers' = ErrorLogged(workers, w)
    /\ UNCHANGED <<sender, queue, spawned, ran, serve_pc>>

\* serve: tcp.peer_addr() or the read of the request returns an I/O error.
ConnNetworkError(w) ==
    /\ workers[w] \in Conns
    /\ conn[workers[w]].stream = "ok"
    /\ conn[workers[w]].inbox # <<>> /\ Head(conn[workers[w]].inbox) = "broken"
    /\ conn' = [conn EXCEPT ![workers[w]] = Ended("network")]
    /\ workers' = ErrorLogged(workers, w)
    /\ UNCHANGED <<sender, queue, spawned, ran, serve_pc>>

\* serve: the requests end with the client's shutdown and serve returns Ok.
ConnEof(w) ==
    /\ workers[w] \in Conns
    /\ conn[workers[w]].stream = "ok" /\ conn[workers[w]].peer = "shutdown"
    /\ conn[workers[w]].inbox = <<>>
    /\ conn' = [conn EXCEPT ![workers[w]] = Ended("ok")]
    /\ workers' = [workers EXCEPT ![w] = "recv"]
    /\ UNCHANGED <<sender, queue, spawned, ran, serve_pc>>

\* One step of a worker thread of the server's pool.
ConnWorkerStep(w) ==
    \/ ConnRecv(w) /\ UNCHANGED <<storeVars, serverVars, sledVars>>
    \/ ConnRefused(w) /\ UNCHANGED <<storeVars, serverVars, sledVars>>
    \/ ConnRequest(w) /\ UNCHANGED <<storeVars, serverVars, sledVars>>
    \/ ConnDecodeError(w) /\ UNCHANGED <<storeVars, serverVars, sledVars>>
    \/ ConnNetworkError(w) /\ UNCHANGED <<storeVars, serverVars, sledVars>>
    \/ ConnEof(w) /\ UNCHANGED <<storeVars, serverVars, sledVars>>

ConnNext ==
    \/ (\E sp \in Streams : Accept(sp)) /\ UNCHANGED <<storeVars, serverVars, sledVars>>
    \/ (\E c \in Conns : PeerShutdown(c)) /\ UNCHANGED <<storeVars, serverVars, sledVars>>
    \/ \E w \in WorkerIds : ConnWorkerStep(w)

\* The server's accept loop, its clients and the workers of its pool.
ConnSpec == Init /\ [][ConnNext]_vars

\* The same when every worker thread is scheduled again and again.
ConnFairSpec == ConnSpec /\ \A w \in WorkerIds : WF_vars(ConnWorkerStep(w))

\* ------------------------------------------------ serve over the KvStore

\* The pool's worker takes the task of a connection and serve begins.
ServeBegin(t) ==
    /\ serve_pc[t].at = "none"
    /\ pc[t] = "idle"
    /\ serve_pc' = [serve_pc EXCEPT ![t] = [at |-> "read", op |-> "none"]]
    /\ UNCHANGED conn

\* serve: the socket yields the next request, `let req = request?`.
ServeRequest(t) ==
    /\ serve_pc[t].at = "read"
    /\ serve_pc' = [serve_pc EXCEPT ![t] = [at |-> "call", op |-> "none"]]
    /\ UNCHANGED conn

\* serve: a step of engine.set, engine.get or engine.remove.
InCall(t) ==
    /\ serve_pc[t].at = "call"
    /\ ops' <= MaxSharedOps
    /\ UNCHANGED <<poolVars, serverVars, sledVars, delVars, connVars>>

\* serve: the engine call returns its Result, which becomes the response.
CallReturns(t) ==
    /\ serve_pc[t].at = "call"
    /\ serve_pc' = [serve_pc EXCEPT ![t] = [at |-> "write", op |-> req[t].op]]
    /\ UNCHANGED <<poolVars, serverVars, sledVars, delVars, conn>>

\* serve: send_resp! writes the response to the socket and flushes it.
ServeRespond(t) ==
    /\ serve_pc[t].at = "write"
    /\ serve_pc' = [serve_pc EXCEPT ![t] = [at |-> "read", op |-> "none"]]
    /\ UNCHANGED conn

\* serve returns: the requests have ended, or reading the request or writing
\* the response has failed.
ServeEnd(t) ==
    /\ serve_pc[t].at \in {"read", "write"}
    /\ serve_pc' = [serve_pc EXCEPT ![t] = NoServe]
    /\ UNCHANGED conn

\* The threads of the server's pool, each in serve on its connection, with
\* clones of one KvStore.
ServeNext ==
    \E t \in Threads :
        \/ ServeBegin(t) /\ UNCHANGED <<storeVars, poolVars, serverVars, sledVars>>
        \/ ServeRequest(t) /\ UNCHANGED <<storeVars, poolVars, serverVars, sledVars>>
        \/ ServeRespond(t) /\ UNCHANGED <<storeVars, poolVars, serverVars, sledVars>>
        \/ ServeEnd(t) /\ UNCHANGED <<storeVars, poolVars, serverVars, sledVars>>
        \/ (\E k \in KeySet : GetLookup(t, k)) /\ InCall(t)
        \/ GetCloseStale(t) /\ InCall(t)
        \/ GetOpen(t) /\ InCall(t)
        \/ GetRead(t) /\ InCall(t)
        \/ (\E k \in KeySet, v \in Values : SetLock(t, k, v)) /\ InCall(t)
        \/ SetWrite(t) /\ InCall(t)
        \/ WriterFlush(t) /\ InCall(t)
        \/ SetIndex(t) /\ InCall(t)
        \/ SetInsert(t) /\ InCall(t)
        \/ (\E k \in KeySet : RemoveLock(t, k)) /\ InCall(t)
        \/ RemoveWrite(t) /\ InCall(t)
        \/ RemoveIndex(t) /\ InCall(t)
        \/ CompactBegin(t) /\ InCall(t)
        \/ CompactCreate(t) /\ InCall(t)
        \/ CompactCopy(t) /\ InCall(t)
        \/ CompactMark(t) /\ InCall(t)
        \/ CompactInsert(t) /\ InCall(t)
        \/ CompactFlush(t) /\ InCall(t)
        \/ CompactSafePoint(t) /\ InCall(t)
        \/ CompactDelete(t) /\ InCall(t)
        \/ Unlock(t) /\ InCall(t)
        \/ Return(t) /\ CallReturns(t)

ServeSpec == Init /\ [][ServeNext]_vars

\* ------------------------------------------------------------------ server

\* The engines of the command line: arg_enum! Engine.
Engines == {"kvs", "sled"}

\* kvs-server's run: the engine asked for is opened in the current directory,
\* KvStore::open or sled::Db::open, and run_with_engine serves with it. Neither
\* open looks at the files of the other engine, and nothing else is read from
\* or written to the directory.
ServerStart(e) ==
    /\ engine = "none"
    /\ starts < MaxStarts
    /\ engine' = e
    /\ first_engine' = IF first_engine = "none" THEN e ELSE first_engine
    /\ starts' = starts + 1
    /\ UNCHANGED <<spc, req_reader, client_open, cur, sent, decoded, results, outbox>>

\* The server process is stopped, and its connection goes with it.
ServerStop ==
    /\ engine # "none"
    /\ engine' = "none"
    /\ spc' = "idle"
    /\ req_reader' = <<>>
    /\ client_open' = FALSE
    /\ cur' = Garbage
    /\ UNCHANGED <<first_engine, starts, sent, decoded, results, outbox>>

\* KvsServer::run: listener.incoming() yields a connection and serve begins.
Connect ==
    /\ engine # "none"
    /\ spc \in {"idle", "eof", "failed"}
    /\ spc' = "read"
    /\ req_reader' = <<>>
    /\ client_open' = TRUE
    /\ cur' = Garbage
    /\ sent' = <<>>
    /\ decoded' = <<>>
    /\ results' = <<>>
    /\ outbox' = <<>>
    /\ UNCHANGED <<engine, first_engine, starts>>

\* The client writes a request, without waiting for earlier responses.
ClientSend(r) ==
    /\ client_open
    /\ Len(sent) < MaxRequests
    /\ req_reader' = Append(req_reader, r)
    /\ sent' = Append(sent, r)
    /\ UNCHANGED <<engine, first_engine, starts, spc, client_open, cur, decoded, results,
                   outbox>>

\* The client shuts down its sending side.
ClientShutdown ==
    /\ client_open
    /\ client_open' = FALSE
    /\ UNCHANGED <<engine, first_engine, starts, spc, req_reader, cur, sent, decoded,
                   results, outbox>>

\* Mutant: the request most recently received is decoded first.
NewestRequest(rs) == rs[Len(rs)]

\* for request in req_reader: the stream yields the requests in the order of
\* their bytes.
NextRequest(rs) == Head(rs)

\* serve: the next item of req_reader; `request?` ends serve with the decoding
\* error of bytes that are no Request.
ServeRead ==
    /\ spc = "read"
    /\ req_reader # <<>>
    /\ LET request == NextRequest(req_reader)
       IN IF request = Garbage
          THEN /\ spc' = "failed"
               /\ UNCHANGED <<cur, decoded>>
          ELSE /\ spc' = "exec"
               /\ cur' = request
               /\ decoded' = Append(decoded, request)
    /\ req_reader' = Tail(req_reader)
    /\ UNCHANGED <<engine, first_engine, starts, client_open, sent, results, outbox>>

\* serve: req_reader ends with the client's side of the connection, and serve
\* returns Ok(()).
ServeEof ==
    /\ spc = "read"
    /\ req_reader = <<>>
    /\ ~client_open
    /\ spc' = "eof"
    /\ UNCHANGED <<engine, first_engine, starts, req_reader, client_open, cur, sent,
                   decoded, results, outbox>>

\* What an engine, any KvsEngine, can return for a request.
EngineResults(request) ==
    CASE request.op = "Set" -> {Ok(None), Err("Io")}
      [] request.op = "Get" -> {Ok(None), Ok(Some([ch |-> "x", n |-> 600])), Err("Io"),
                                Err("UnexpectedCommandType")}
      [] request.op = "Remove" -> {Ok(None), Err("KeyNotFound"), Err("Io")}

\* Every result of an engine.
AllResults == UNION {EngineResults(request) : request \in ClientRequests \ {Garbage}}

\* format!("{}", err): the error's display text.
Display(kind) ==
    CASE kind = "KeyNotFound" -> "Key not found"
      [] kind = "UnexpectedCommandType" -> "Unexpected command type"
      [] kind = "Io" -> "io error"

\* The match arms of serve: SetResponse, GetResponse or RemoveResponse after the
\* request, Ok with the engine's value or Err with the error's text.
EngineResponse(request, res) ==
    [type |-> request.op,
     kind |-> IF res.kind = "ok" THEN "Ok" ELSE "Err",
     body |-> IF res.kind = "ok"
              THEN (IF request.op = "Get" THEN Some(res.val) ELSE None)
              ELSE Some(Display(res.kind))]

\* Mutant: serve returns after the response of an engine error.
StopOnError(res) == IF res.kind = "ok" THEN "read" ELSE "failed"

\* serve after send_resp!: the for loop takes the next request.
AfterResponse(res) == "read"

\* serve: the engine is called for req, and send_resp! writes and flushes the
\* response.
ServeExec(res) ==
    /\ spc = "exec"
    /\ res \in EngineResults(cur)
    /\ results' = Append(results, res)
    /\ outbox' = Append(outbox, EngineResponse(cur, res))
    /\ spc' = AfterResponse(res)
    /\ UNCHANGED <<engine, first_engine, starts, req_reader, client_open, cur, sent,
                   decoded>>

ServerNext ==
    \/ (\E e \in Engines : ServerStart(e)) /\ UNCHANGED <<storeVars, poolVars, sledVars, connVars>>
    \/ ServerStop /\ UNCHANGED <<storeVars, poolVars, sledVars, connVars>>
    \/ Connect /\ UNCHANGED <<storeVars, poolVars, sledVars, connVars>>
    \/ (\E r \in ClientRequests : ClientSend(r)) /\ UNCHANGED <<storeVars, poolVars, sledVars, connVars>>
    \/ ClientShutdown /\ UNCHANGED <<storeVars, poolVars, sledVars, connVars>>
    \/ ServeRead /\ UNCHANGED <<storeVars, poolVars, sledVars, connVars>>
    \/ ServeEof /\ UNCHANGED <<storeVars, poolVars, sledVars, connVars>>
    \/ (\E res \in AllResults : ServeExec(res)) /\ UNCHANGED <<storeVars, poolVars, sledVars, connVars>>

\* The server, started and stopped, with a client on a connection.
ServerSpec == Init /\ [][ServerNext]_vars

\* ------------------------------------------------------------------- claims

\* The engine has never crashed: every call that began has returned.
CrashFree == crashes = 0

\* The places of a writer inside compact, once compaction has begun.
Compacting == {"c_create", "c_copy", "c_mark", "c_insert", "c_flush", "c_safe",
               "c_delete", "c_done"}

MaxOf(S) == CHOOSE g \in S : \A h \in S : g >= h

\* C1: in a single-threaded history of set, remove and get (compactions
\* included), every get(k) returns Some(v) for the value v of the last set of k
\* that no remove of k followed, and None otherwise: what a plain map answers.
C1_GetAnswersLikeMap ==
    \A t \in Threads :
        (pc[t] = "done" /\ req[t].op = "get" /\ CrashFree)
            => ret[t] = Ok(model[req[t].key])

\* C1's case: a get returns the value of an overwritten key after a compaction.
C1_Witness ==
    \E t \in Threads :
        /\ pc[t] = "done" /\ req[t].op = "get" /\ restarts = 0
        /\ ret[t].kind = "ok" /\ ret[t].val # None
        /\ safe_point > 0
        /\ Cardinality(written[req[t].key]) >= 2

\* C2: after any sequence of set and remove (compactions included), dropping
\* the engine and opening the directory again gives an engine that answers
\* get(k) for every key as the engine did just before it was dropped.
C2_ReopenAnswersAlike ==
    downPc = "closed" =>
        /\ status # "failed"
        /\ (status = "up" /\ fresh) =>
              /\ \A k \in KeySet : Answer(k) = snap[k]
              /\ \A t \in Threads :
                    (pc[t] = "done" /\ req[t].op = "get") => ret[t] = snap[req[t].key]

\* C2's case: an engine reopened after a compaction, with a live key, a removed
\* key, and records in two log files.
C2_Witness ==
    /\ downPc = "closed" /\ status = "up" /\ fresh
    /\ 1 \notin linked
    /\ \E k \in KeySet : snap[k].val # None
    /\ \E g \in linked, h \in linked : g # h /\ files[g].cmds # <<>> /\ files[h].cmds # <<>>
    /\ \E t \in Threads : pc[t] = "done" /\ req[t].op = "get" /\ ret[t].val # None

\* C3: after set(k, v) and then remove(k), get(k) returns None and a second
\* remove(k) returns KeyNotFound, also when a compaction ran in between.
C3_RemovedKeyIsGone ==
    \A t \in Threads :
        (pc[t] = "done" /\ req[t].pre = "remove" /\ CrashFree)
            => /\ req[t].op = "get" => ret[t] = Ok(None)
               /\ req[t].op = "remove" => ret[t] = Err("KeyNotFound")

\* C3's case: the second remove of a key, after a compaction.
C3_Witness ==
    \E t \in Threads :
        /\ pc[t] = "done" /\ req[t].pre = "remove" /\ req[t].op = "remove"
        /\ ret[t] = Err("KeyNotFound")
        /\ safe_point > 0 /\ restarts = 0

\* C4: with threads calling set and remove and threads calling get on clones of
\* one engine, every get completes with Ok, with a value that was set for its
\* key or with None when the key was removed or never set; none returns an
\* I/O, decode or unexpected-command error.
C4_ConcurrentGetSucceeds ==
    \A t \in Threads :
        (pc[t] = "done" /\ req[t].op = "get")
            => /\ ret[t].kind = "ok"
               /\ ret[t].val # None => ret[t].val \in req[t].known
               /\ ret[t].val = None => (req[t].known = {} \/ None \in req[t].known)

\* C5: while a get holds a log pointer into generation g, the file g.log is in
\* the directory, so that the reader can open and read it.
C5_PointedFileExists ==
    \A t \in Threads :
        pc[t] \in {"g_stale", "g_open", "g_read"} => cmd_pos[t].gen \in linked

\* C6: a get(k) that begins after set(k, v) has returned observes v or the
\* value of a later set of k; one that begins after remove(k) has returned
\* observes None unless a later set of k intervened.
C6_GetSeesLastReturned ==
    \A t \in Threads :
        (pc[t] = "done" /\ req[t].op = "get" /\ req[t].after # "none")
            => ret[t].kind = "ok" /\ ret[t].val \in req[t].allowed

\* A log file of the directory ends inside a record.
HasTornTail == \E g \in linked : files[g].size < TotalLen(files[g].cmds)

\* C7: when a crash in the middle of an append left a partial record at the end
\* of the newest log file, open succeeds, ignores the partial record, and its
\* index shows exactly the complete records: every call that completed before
\* the crash is visible.
C7_TornTailIgnored ==
    (downPc \in {"s_flush", "r_flush"} /\ crashes = 1 /\ HasTornTail) =>
        /\ status # "failed"
        /\ (status = "up" /\ fresh) => \A k \in KeySet : Answer(k) = Ok(model[k])

\* C8: after a crash at any step of compaction, open takes the greatest
\* generation of the directory plus one as current_gen, replays the files, and
\* answers get for every key as the engine did before the compaction began.
C8_CrashInCompaction ==
    downPc \in Compacting =>
        /\ status # "failed"
        /\ (status = "up" /\ fresh) =>
              /\ current_gen = MaxOf(linked \ {current_gen}) + 1
              /\ \A k \in KeySet : Answer(k) = snap[k]

\* C9: for every key, get(k) just after a compaction completes returns what it
\* returned just before the compaction began.
C9_CompactionKeepsAnswers ==
    \A t \in Threads : pc[t] = "c_done" => \A k \in KeySet : Answer(k) = snap[k]

\* C9's case: a compaction has completed with every key live, and every index
\* entry now points into the compaction file.
C9_Witness ==
    \E t \in Threads :
        /\ pc[t] = "c_done"
        /\ \A k \in KeySet : snap[k].val # None
        /\ \A k \in KeySet : index[k] # None /\ index[k][1].gen = safe_point

\* C10: remove(k) of a key that is not in the index returns KeyNotFound and
\* changes nothing: no record is appended, the index and uncompacted stay as
\* they are, and no compaction begins.
C10_RemoveAbsentIsNoOp ==
    [][\A t \in Threads :
          (pc[t] = "idle" /\ pc'[t] # "idle" /\ req'[t].op = "remove"
             /\ index[req'[t].key] = None)
          => /\ ret'[t] = Err("KeyNotFound")
             /\ pc'[t] = "done"
             /\ UNCHANGED <<files, linked, index, uncompacted, current_gen, safe_point,
                            lock>>]_vars

\* C10's case: remove of an absent key has failed in an engine with records in
\* its log and uncompacted bytes.
C10_Witness ==
    \E t \in Threads :
        /\ pc[t] = "done" /\ req[t].op = "remove" /\ ret[t] = Err("KeyNotFound")
        /\ uncompacted > 0
        /\ files[current_gen].cmds # <<>>

\* The places of a thread inside KvStoreWriter::set or KvStoreWriter::remove,
\* the compaction they trigger included.
WriterSection == {"s_write", "s_flush", "s_index", "s_insert", "r_write", "r_flush",
                  "r_index", "c_begin", "unlock"} \cup Compacting

\* C11: at most one thread at a time is inside the writer critical section,
\* whatever clone it uses; the thread inside holds the writer lock, and a
\* compaction runs only inside the set or remove that triggered it, under
\* that call's lock.
C11_WriterExclusion ==
    /\ \A t \in Threads : pc[t] \in WriterSection => lock = t
    /\ \A t, u \in Threads : (pc[t] \in WriterSection /\ pc[u] \in WriterSection) => t = u
    /\ \A t \in Threads : pc[t] \in Compacting \cup {"c_begin"} => req[t].op \in {"set", "remove"}

\* C11's case: one thread compacts while the other, whose own set has
\* returned, is in the middle of a get.
C11_Witness ==
    \E t, u \in Threads :
        /\ t # u
        /\ pc[t] = "c_copy" /\ lock = t
        /\ pc[u] \in {"g_stale", "g_open", "g_read"}
        /\ \E k \in KeySet : returned[k].op = "set"

\* The workers that are in run_task's loop.
LiveWorkers == {w \in WorkerIds : workers[w] \in {"recv", "returns", "panics", "logged"}}

\* The workers that a panic is unwinding, their receiver not yet dropped.
Unwinding == {w \in WorkerIds : workers[w] = "panicking"}

\* C12: in a pool made with N workers a task that panics does not reduce the
\* number of live workers: whatever tasks were spawned, once no thread is in
\* the middle of unwinding N workers are in run_task's loop on the pool's
\* queue, a thread that is unwinding being the only one not yet replaced.
C12_PanicKeepsWorkers ==
    /\ Cardinality(LiveWorkers) + Cardinality(Unwinding) = PoolThreads
    /\ Unwinding = {} => Cardinality(LiveWorkers) = PoolThreads

\* C12's case: two tasks have panicked, their workers are gone, and the
\* workers that replaced them wait on the queue.
C12_Witness ==
    /\ Cardinality({w \in WorkerIds : workers[w] = "gone"}) >= 2
    /\ Unwinding = {}
    /\ \E w \in WorkerIds : w > PoolThreads /\ workers[w] = "recv"

\* C13: after the pool is dropped every task still in the queue is run and
\* then every worker thread exits.
C13_WorkersExitAfterDrop ==
    (sender = "dropped") ~> (queue = <<>> /\ LiveWorkers = {} /\ Unwinding = {})

\* C14: in the server's connection loop an engine operation that returns an
\* error gets an Err response of the request's response type, with the
\* error's text, and the connection keeps serving: after the response serve is
\* back at reading the next request.
C14_EngineErrorAnswered ==
    /\ [](\A i \in 1..Len(outbox) :
             results[i].kind # "ok" =>
                 outbox[i] = [type |-> decoded[i].op, kind |-> "Err",
                              body |-> Some(Display(results[i].kind))])
    /\ [][(spc = "exec" /\ spc' # "exec" /\ engine' # "none")
             => (spc' = "read" /\ Len(outbox') = Len(outbox) + 1)]_vars

\* C14's case: remove of an absent key was answered with Err, and the next
\* request on the connection was read and answered with Ok.
C14_Witness ==
    /\ Len(outbox) >= 2
    /\ decoded[1].op = "Remove" /\ results[1] = Err("KeyNotFound")
    /\ outbox[1] = [type |-> "Remove", kind |-> "Err", body |-> Some("Key not found")]
    /\ outbox[2].kind = "Ok"

\* C15: on a connection the server writes one response for each decoded
\* request, in the order the requests came: the i-th response answers the i-th
\* request the client sent, and its type is that of the request.
C15_ResponsesInOrder ==
    /\ Len(results) = Len(outbox)
    /\ Len(decoded) \in {Len(outbox), Len(outbox) + 1}
    /\ spc \in {"read", "eof", "failed"} => Len(decoded) = Len(outbox)
    /\ Len(decoded) <= Len(sent)
    /\ \A i \in 1..Len(decoded) : decoded[i] = sent[i]
    /\ \A i \in 1..Len(outbox) :
          /\ outbox[i].type = sent[i].op
          /\ outbox[i] = EngineResponse(sent[i], results[i])

\* C15's case: three requests of different types sent ahead of the responses
\* have been answered, each with a response of its type.
C15_Witness ==
    /\ Len(outbox) = 3
    /\ {outbox[i].type : i \in 1..3} = {"Set", "Get", "Remove"}
    /\ spc = "read"

\* C17: the engine of the first start is recorded in the directory, and a
\* later start that asks for another engine aborts instead of serving: a
\* server that serves runs the engine of the first start.
C17_EngineMismatchAborts ==
    engine # "none" => engine = first_engine

\* C16: for a single-threaded sequence of set, get and remove the SledKvsEngine
\* and the KvStore return the same result for every operation: the same value
\* or None for get, Ok for set, Ok or KeyNotFound for remove.
C16_SledAnswersAlike ==
    \A t \in Threads : (pc[t] = "done" /\ CrashFree) => ret[t] = sled_ret[t]

\* C16's case: after a compaction of the KvStore, one key being removed in
\* both engines, a get of the other returns its value from both.
C16_Witness ==
    \E t \in Threads :
        /\ pc[t] = "done" /\ req[t].op = "get" /\ CrashFree
        /\ sled_ret[t].kind = "ok" /\ sled_ret[t].val # None
        /\ safe_point > 0
        /\ \E k \in KeySet : returned[k].op = "remove" /\ tree[k] = None

\* C18: whenever an index entry (gen, pos, len) is visible to readers, the
\* bytes pos..pos+len of gen.log have been flushed to the file, for the entries
\* set writes and for those compaction points at the compaction file.
C18_IndexedBytesFlushed ==
    status = "up" =>
        \A k \in KeySet :
            index[k] # None =>
                /\ index[k][1].gen \in linked
                /\ index[k][1].pos + index[k][1].len <= files[index[k][1].gen].size

\* C19: in every state where no set or remove is in progress, for every key K
\* of the index the bytes at the entry's (gen, pos, len) decode to a Set record
\* of key K, so that no get returns the unexpected-command error.
C19_IndexPointsAtSet ==
    /\ (status = "up" /\ lock = NoThread) =>
          \A k \in KeySet :
              index[k] # None =>
                  /\ index[k][1].gen \in linked
                  /\ LET c == ReadCommand(files[index[k][1].gen], index[k][1])
                     IN c.kind = "ok" /\ c.val.op = "Set" /\ c.val.key = k
    /\ \A t \in Threads :
          (pc[t] = "done" /\ req[t].op = "get") => ret[t].kind # "UnexpectedCommandType"

\* C19's case: an engine opened again after a crash, whose two keys have their
\* records in different files, one of them behind other records.
C19_Witness ==
    /\ status = "up" /\ lock = NoThread /\ crashes = 1
    /\ \A k \in KeySet : index[k] # None
    /\ \E k, l \in KeySet : index[k][1].gen # index[l][1].gen /\ index[k][1].pos > 0

\* C20: when a compaction completes, every entry of the index has the
\* generation of that compaction's file, and none points into an earlier
\* generation.
C20_CompactedIndexInOneFile ==
    \A t \in Threads :
        pc[t] = "c_done" =>
            \A k \in KeySet :
                index[k] # None =>
                    /\ index[k][1].gen = compaction_gen
                    /\ compaction_gen = current_gen - 1

\* C20's case: a compaction has completed in an engine that had compacted
\* before, with a key in the index and a key that was removed.
C20_Witness ==
    \E t \in Threads :
        /\ pc[t] = "c_done"
        /\ compaction_gen > 2
        /\ \E k, l \in KeySet : index[k] # None /\ index[l] = None /\ lastOp[l] = "remove"

\* C21: in every state of an open engine every index entry has gen >=
\* safe_point: safe_point is set to a generation only when no entry points
\* below it, and the entries written afterwards are in later generations.
C21_IndexAboveSafePoint ==
    status = "up" => \A k \in KeySet : index[k] # None => index[k][1].gen >= safe_point

\* C21's case: after a compaction, one key still has its entry in the
\* compaction file and another was set since, into the file after it.
C21_Witness ==
    /\ status = "up" /\ safe_point > 0
    /\ \E k, l \in KeySet :
          /\ index[k] # None /\ index[k][1].gen = safe_point
          /\ index[l] # None /\ index[l][1].gen > safe_point

\* C22: safe_point never decreases while an engine is open: it is 0 when the
\* engine has been opened, only compact's store changes it, and every such
\* store puts a value strictly greater than the one before.
C22_SafePointGrows ==
    /\ []((status = "up" /\ fresh) => safe_point = 0)
    /\ [][(status = "up" /\ status' = "up")
             => /\ safe_point' >= safe_point
                /\ (\E t \in Threads : pc[t] = "c_safe" /\ pc'[t] # "c_safe")
                      <=> safe_point' > safe_point]_vars

\* C22's case: a second compaction of one engine has stored its generation
\* over that of the first.
C22_Witness ==
    /\ status = "up" /\ restarts = 0
    /\ safe_point > 2
    /\ \E t \in Threads : pc[t] = "c_delete"

\* The compaction file holds every byte written to it.
CompactionFlushed == files[compaction_gen].size = WriterPos(files[compaction_gen])

\* Every entry of the index points into the compaction file.
AllRepointed == \A k \in KeySet : index[k] # None => index[k][1].gen = compaction_gen

\* C23: the steps of a compaction come in this order: every index entry is
\* repointed, the compaction writer is flushed, safe_point is set to
\* compaction_gen, the stale files are deleted, uncompacted is set to 0. So
\* the flush finds every entry repointed, safe_point is stored only over a
\* flushed compaction file, a file is deleted only once safe_point is stored
\* and is below it, and uncompacted is reset only when no stale file is left.
C23_CompactionStepOrder ==
    /\ [](\A t \in Threads :
            /\ pc[t] \in {"c_flush", "c_safe"} => (todo = <<>> /\ AllRepointed)
            /\ pc[t] \in {"c_create", "c_copy", "c_mark", "c_insert", "c_flush", "c_safe"}
                  => (safe_point < compaction_gen /\ uncompacted > 0))
    /\ [][(status = "up" /\ status' = "up")
             => /\ safe_point' # safe_point
                   => (CompactionFlushed /\ AllRepointed /\ safe_point' = compaction_gen
                       /\ linked' = linked /\ uncompacted' = uncompacted)
                /\ linked' # linked /\ lock # NoThread /\ pc[lock] = "c_delete"
                   => (safe_point = compaction_gen /\ linked' \subseteq linked
                       /\ \A g \in linked \ linked' : g < safe_point)
                /\ (uncompacted' = 0 /\ uncompacted # 0)
                   => (safe_point = compaction_gen /\ \A g \in linked : g >= safe_point)
                /\ \A g \in linked \ linked' : safe_point = compaction_gen]_vars

\* C23's case: a compaction that repointed both keys and deleted two stale
\* files has set uncompacted to 0.
C23_Witness ==
    \E t \in Threads :
        /\ pc[t] = "c_done" /\ uncompacted = 0
        /\ \A k \in KeySet : index[k] # None /\ index[k][1].gen = safe_point
        /\ began.gen > 1 /\ linked = {compaction_gen, current_gen}

\* C24: a compaction that began with current_gen = g has its compaction file
\* at generation g+1 and the writer at g+2 from its first step on, and when
\* it has succeeded safe_point = g+1 and both files are in the directory;
\* every record set and remove append afterwards, until the writer compacts
\* again, goes to the file of generation g+2 and to no other.
C24_CompactionGenerations ==
    /\ [](\A t \in Threads :
            /\ pc[t] \in Compacting
                  => /\ compaction_gen = began.gen + 1
                     /\ current_gen = began.gen + 2
            /\ pc[t] = "c_done"
                  => /\ safe_point = began.gen + 1
                     /\ {began.gen + 1, began.gen + 2} \subseteq linked)
    /\ []((status = "up" /\ safe_point > 0 /\ \A t \in Threads : pc[t] \notin Compacting)
             => current_gen = safe_point + 1)
    /\ [][\A t \in Threads :
            (pc[t] \in {"s_write", "r_write"} /\ pc'[t] # pc[t] /\ status' = "up")
               => /\ Len(files'[current_gen].cmds) = Len(files[current_gen].cmds) + 1
                  /\ \A g \in DOMAIN files \ {current_gen} : files'[g] = files[g]
                  /\ DOMAIN files' = DOMAIN files]_vars

\* C24's case: after a compaction that began at a generation above 1, a set
\* has put its record in the file two generations on.
C24_Witness ==
    /\ status = "up" /\ safe_point > 2 /\ lock = NoThread
    /\ current_gen = safe_point + 1
    /\ files[current_gen].cmds # <<>>
    /\ \E k \in KeySet : index[k] # None /\ index[k][1].gen = current_gen

\* C25: when a compaction has completed and none of its deletions failed, the
\* directory holds exactly two log files, that of compaction_gen and that of
\* current_gen; so a file whose deletion failed in an earlier compaction is
\* gone too. In any case the files that stay are those two and the ones
\* whose deletion failed in this compaction.
C25_TwoFilesAfterCompaction ==
    \A t \in Threads :
        pc[t] = "c_done" =>
            /\ linked = {compaction_gen, current_gen} \cup undeleted
            /\ undeleted = {} => (Cardinality(linked) = 2 /\ leftover \cap linked = {})

\* C25's case: a compaction without a failed deletion has completed after one
\* that left a stale file behind.
C25_Witness ==
    \E t \in Threads :
        /\ pc[t] = "c_done" /\ undeleted = {} /\ leftover # {}
        /\ linked = {compaction_gen, current_gen}

\* The log files that were in the directory when the engine was opened.
Replayed == linked \ {current_gen}

\* C26: an engine just opened on a directory without log files has an empty
\* index and its writer on generation 1; one opened on a directory with log
\* files has its writer on a new, empty file whose generation is the greatest
\* of the directory plus one, so that it appends to no file it replayed, and
\* when no crash tore a call its index has the keys the files' records leave,
\* taken in ascending order of generation.
C26_OpenTakesNextGeneration ==
    (status = "up" /\ fresh) =>
        /\ current_gen \in linked
        /\ files[current_gen] = EmptyFile
        /\ Replayed = {} => (current_gen = 1 /\ index = EmptyIndex /\ restarts = 0)
        /\ Replayed # {} => current_gen = MaxOf(Replayed) + 1
        /\ \A k \in KeySet : index[k] # None => index[k][1].gen \in Replayed
        /\ CrashFree => \A k \in KeySet : Answer(k) = Ok(model[k])

\* C26's case: an engine opened on a directory of three log files, left by a
\* crash inside a compaction, with a key in its index.
C26_Witness ==
    /\ status = "up" /\ fresh /\ restarts = 1
    /\ Cardinality(Replayed) = 3
    /\ \E k \in KeySet : index[k] # None

\* The length of the pointer key k has in the index, 0 when it has none.
PointerLen(k) == IF index[k] = None THEN 0 ELSE index[k][1].len

\* C27: up to the compaction it may trigger, a set adds to uncompacted
\* exactly the length of the pointer its key had in the index, nothing for
\* a new key, and a remove that succeeds adds exactly the length of the
\* pointer it removes plus the bytes of the Remove record it wrote.
C27_UncompactedAccounting ==
    [][\A t \in Threads :
          (status' = "up" /\ pc'[t] # pc[t]) =>
              /\ pc[t] = "s_index"
                    => uncompacted' = uncompacted + PointerLen(req[t].key)
              /\ pc[t] = "r_index"
                    => uncompacted' = uncompacted + PointerLen(req[t].key)
                                        + CmdLen(RemoveCmd(req[t].key))
              /\ pc[t] \in {"idle", "s_write", "s_flush", "s_insert", "r_write", "r_flush"}
                    => uncompacted' = uncompacted]_vars

\* C27's case: a remove has added the 630 bytes of the entry it removed and
\* the 22 bytes of its own record, without reaching the threshold.
C27_Witness ==
    \E t \in Threads :
        /\ pc[t] = "unlock" /\ req[t].op = "remove" /\ ret[t] = NoRet
        /\ uncompacted = 630 + 22

\* C28: compaction runs exactly when a set or a remove ends with uncompacted
\* above the threshold, and before the call returns: compact is entered only
\* with uncompacted > 1024, a call that skips it has uncompacted <= 1024, a
\* compaction ends with uncompacted = 0, and so a set or remove that returned
\* Ok leaves uncompacted <= 1024.
C28_CompactionAtThreshold ==
    \A t \in Threads :
        /\ (pc[t] \in {"c_begin"} \cup (Compacting \ {"c_done"}))
              => uncompacted > COMPACTION_THRESHOLD
        /\ (pc[t] = "unlock" /\ ret[t] = NoRet) => uncompacted <= COMPACTION_THRESHOLD
        /\ pc[t] = "c_done" => uncompacted = 0
        /\ (pc[t] = "done" /\ req[t].op \in {"set", "remove"} /\ ret[t].kind = "ok"
              /\ lock = NoThread)
              => uncompacted <= COMPACTION_THRESHOLD

\* C28's case: a remove has returned Ok after the compaction it triggered,
\* which left the other key in the index.
C28_Witness ==
    \E t \in Threads :
        /\ pc[t] = "done" /\ req[t].op = "remove" /\ ret[t].kind = "ok"
        /\ lock = NoThread /\ uncompacted = 0 /\ safe_point > 0
        /\ \E k \in KeySet : index[k] # None

\* The lengths of the pointers in the index, added up.
RECURSIVE LiveBytes(_)
LiveBytes(ks) ==
    IF ks = {} THEN 0
    ELSE LET k == CHOOSE l \in ks : TRUE
         IN PointerLen(k) + LiveBytes(ks \ {k})

\* C29: when a compaction has completed and deleted the stale files, the
\* sizes of the log files of the directory add up to the lengths of the
\* pointers in the index, and to less than the sizes of the log files added
\* up to when the compaction began.
C29_CompactionShrinksLogs ==
    \A t \in Threads :
        pc[t] = "c_done" =>
            /\ DirSize(files, linked) = LiveBytes(KeySet)
            /\ DirSize(files, linked) < began.size

\* C29's case: a compaction has completed that kept the records of two keys
\* and dropped more than the threshold of stale bytes.
C29_Witness ==
    \E t \in Threads :
        /\ pc[t] = "c_done"
        /\ \A k \in KeySet : index[k] # None
        /\ DirSize(files, linked) > 0
        /\ began.size - DirSize(files, linked) > COMPACTION_THRESHOLD

\* C30: a read first drops from its reader's cache every handle of a
\* generation below the safe_point it loads, then looks up or opens the one
\* handle it needs; so when a get has read its record, its reader's cache
\* holds no handle of a generation below that safe_point.
C30_NoStaleHandleAfterRead ==
    \A t \in Threads :
        (pc[t] = "done" /\ req[t].op = "get" /\ cmd_pos[t] # NoPos)
            => \A g \in readers[t] : g >= req[t].safe

\* C31: get never takes the writer mutex: no thread holds it inside a get, and
\* a get can begin, drop its stale handles and open its file whoever holds the
\* mutex (its last step, the read, waits for nothing), so that it completes
\* while another thread is inside one set, remove or compaction.
C31_GetTakesNoLock ==
    \A t \in Threads :
        /\ lock = t => req[t].op \in {"set", "remove"}
        /\ (status = "up" /\ pc[t] = "idle") => ENABLED (\E k \in KeySet : GetLookup(t, k))
        /\ pc[t] = "g_stale" => ENABLED GetCloseStale(t)
        /\ pc[t] = "g_open" => ENABLED GetOpen(t)

\* C31's case: a get that read a record has begun and completed while the
\* other thread was inside one and the same call of set or remove.
C31_Witness ==
    \E t \in Threads :
        /\ pc[t] = "done" /\ req[t].op = "get" /\ ret[t].kind = "ok" /\ ret[t].val # None
        /\ req[t].held.by \in Threads \ {t}
        /\ lock = req[t].held.by /\ ops = req[t].held.op
        /\ pc[lock] \in Compacting

\* C33: every task given to spawn is executed exactly once, by one worker:
\* the tasks called and the tasks waiting are together the tasks spawned, and
\* the n-th task spawned is eventually called, also when tasks ahead of it
\* panic.
C33_EveryTaskRunsOnce ==
    /\ [](ran + Len(queue) = spawned)
    /\ \A n \in 1..MaxTasks : (spawned >= n) ~> (ran >= n)

\* C33's case: a task has panicked and its worker is gone, and the thread that
\* replaced it runs the last task spawned, which was queued behind.
C33_Witness ==
    /\ \E w \in WorkerIds : workers[w] = "gone"
    /\ \E w \in WorkerIds : w > PoolThreads /\ workers[w] = "returns"
    /\ spawned = MaxTasks /\ ran = spawned

\* The lengths of the index entries of the first n keys of ks, added up.
RECURSIVE LenBefore(_, _)
LenBefore(ks, n) == IF n = 0 THEN 0 ELSE LenBefore(ks, n - 1) + PointerLen(ks[n])

\* C38: when a compaction has completed, the index entries taken in key order
\* lie back to back in the compaction file from offset 0, each with the length
\* of the record the key had before, and the file's size is the sum of the
\* lengths.
C38_CompactionPacksRecords ==
    \A t \in Threads :
        pc[t] = "c_done" =>
            LET ks == IndexKeys(index, KeyOrder)
            IN /\ \A i \in 1..Len(ks) :
                     /\ index[ks[i]][1].gen = compaction_gen
                     /\ index[ks[i]][1].pos = LenBefore(ks, i - 1)
                     /\ snap[ks[i]].kind = "ok" /\ snap[ks[i]].val # None
                     /\ index[ks[i]][1].len = CmdLen(SetCmd(ks[i], snap[ks[i]].val[1]))
               /\ files[compaction_gen].size = LenBefore(ks, Len(ks))
               /\ Len(files[compaction_gen].cmds) = Len(ks)

\* C38's case: a compaction has completed that copied the records of two keys,
\* of different lengths, the second one behind the first.
C38_Witness ==
    \E t \in Threads :
        /\ pc[t] = "c_done"
        /\ \A k \in KeySet : index[k] # None
        /\ index[KeyOrder[1]][1].len # index[KeyOrder[2]][1].len
        /\ index[KeyOrder[2]][1].pos = index[KeyOrder[1]][1].len

\* C39: whenever no set or remove is in progress, every index entry refers to
\* a log file of the directory, lies within that file's bytes, and has a
\* generation no greater than current_gen, and the byte ranges of two
\* different keys do not overlap.
C39_IndexEntriesInBounds ==
    (status = "up" /\ lock = NoThread) =>
        /\ \A k \in KeySet :
              index[k] # None =>
                  /\ index[k][1].gen \in linked
                  /\ index[k][1].pos + index[k][1].len <= files[index[k][1].gen].size
                  /\ index[k][1].gen <= current_gen
        /\ \A k, l \in KeySet :
              (k # l /\ index[k] # None /\ index[l] # None
               /\ index[k][1].gen = index[l][1].gen) =>
                  \/ index[k][1].pos + index[k][1].len <= index[l][1].pos
                  \/ index[l][1].pos + index[l][1].len <= index[k][1].pos

\* C39's case: with no call in progress two keys have their records in one
\* file, the file the writer appends to, one behind the other.
C39_Witness ==
    /\ status = "up" /\ lock = NoThread
    /\ \A k \in KeySet : index[k] # None /\ index[k][1].gen = current_gen
    /\ \E k \in KeySet : index[k][1].pos > 0

C36_WriterOnCurrentGen ==
    status = "up" =>
        /\ writer = current_gen
        /\ lock = NoThread =>
              \A k \in KeySet :
                  index[k] # None =>
                      /\ index[k][1].gen \in linked
                      /\ LET c == ReadCommand(files[index[k][1].gen], index[k][1])
                         IN c.kind = "ok" /\ c.val.op = "Set" /\ c.val.key = k

\* C37: where deletions of stale files fail in a compaction the answers are
\* as they would be without the failure: once the compaction has completed
\* every key answers as before it, and after a later close and reopen, which
\* replays the stale files left behind before the compaction file, every key
\* answers as before the close, so that no removed key comes back.
C37_FailedDeletionsHarmless ==
    /\ \A t \in Threads : pc[t] = "c_done" => \A k \in KeySet : Answer(k) = snap[k]
    /\ downPc = "closed" =>
          /\ status # "failed"
          /\ (status = "up" /\ fresh) => \A k \in KeySet : Answer(k) = snap[k]

\* C32: no connection task holds the engine's writer lock while it is at a
\* socket read or write: a thread of serve holds the lock only inside its
\* engine call, not at the next request, not at the response, and not after
\* serve has returned.
C32_NoLockAtSocket ==
    \A t \in Threads :
        serve_pc[t].at \in {"read", "write", "none"} => (lock # t /\ pc[t] = "idle")

\* C32's case: a connection's set or remove has compacted and returned, the
\* thread is at writing the response, and the other connection's thread has
\* taken the lock in its own engine call.
C32_Witness ==
    \E t \in Threads :
        /\ serve_pc[t].at = "write" /\ serve_pc[t].op \in {"set", "remove"}
        /\ safe_point > 0
        /\ lock \in Threads \ {t}

\* The connections a worker is serving.
Served == {c \in Conns : \E w \in WorkerIds : workers[w] = c}

\* The connections accepted and still in the pool's queue.
Queued == {c \in Conns : \E i \in 1..Len(queue) : queue[i] = c}

\* C34: a network or request-decoding error on a connection ends that
\* connection's task alone: in the step in which serve fails no other
\* connection changes, the queue and the accept loop's sender stay as they
\* are, and the worker that served the connection is back at taking tasks
\* while every other worker stays where it is; no worker thread is ever lost,
\* and the accept loop can take the next connection.
C34_ErrorEndsOneConnection ==
    /\ [](/\ Cardinality({w \in WorkerIds : workers[w] \in Conns \cup {"recv"}}) = PoolThreads
          /\ sender = "open"
          /\ spawned < MaxTasks => ENABLED (\E sp \in Streams : Accept(sp)))
    /\ [][\A c \in Conns :
             (conn[c].st \notin Failed /\ conn'[c].st \in Failed) =>
                 /\ \A d \in Conns \ {c} : conn'[d] = conn[d]
                 /\ queue' = queue
                 /\ \E w \in WorkerIds :
                       /\ workers[w] = c /\ workers'[w] = "recv"
                       /\ \A v \in WorkerIds \ {w} : workers'[v] = workers[v]]_vars

\* C34's case: as many connections as the pool has workers have failed, on a
\* decoding error and on a network error among them, and one more connection
\* is being served and has its response: a worker that ran a failed
\* connection has taken a task again.
C34_Witness ==
    /\ Cardinality({c \in Conns : conn[c].st \in Failed}) >= PoolThreads
    /\ \E c, d \in Conns : conn[c].st = "decode" /\ conn[d].st = "network"
    /\ \E c \in Served : conn[c].answered = 1

\* C40: a connection's task has one worker from the moment the worker takes
\* it until the connection ends, so that at most as many connections are
\* served at once as the pool has workers; and a connection accepted while
\* every worker is busy is served in the end, unless from some moment on no
\* connection that is being served ends.
C40_OneWorkerPerConnection ==
    /\ [](/\ Cardinality(Served) <= PoolThreads
          /\ \A c \in Served : Cardinality({w \in WorkerIds : workers[w] = c}) = 1)
    /\ [][\A w \in WorkerIds :
             (workers[w] \in Conns /\ workers'[w] # workers[w]) =>
                 conn'[workers[w]].st \in Failed \cup {"ok"}]_vars
    /\ \A c \in Conns :
          (c \in Queued)
              ~> (\/ c \notin Queued
                  \/ [](\A d \in Served : conn[d].peer = "open" /\ conn[d].inbox = <<>>))

\* C40's case: a connection that was accepted while every worker was busy is
\* being served, and its request has been answered.
C40_Witness ==
    \E c \in Served : conn[c].waited /\ conn[c].answered = 1

====
